---------------------------- MODULE Spec2Model ----------------------------
(***************************************************************************)
(* Model of the e-mail verifier, the e-mail finder and the bulk jobs of    *)
(* EVF2 (backend/email_verifier.py, backend/email_finder.py,               *)
(* backend/main.py).                                                       *)
(*                                                                         *)
(*   Spec       a verify_email call on a new EmailVerifier, advancing      *)
(*              stage by stage (MX, SMTP probe, deliverability,            *)
(*              catch-all, reputation, fusion + status).                   *)
(*   SpecProbe  one smtp_handshake call, advancing host by host.           *)
(*   SpecCache  verify_email calls one after another on one verifier,      *)
(*              seen from the MX cache, with the clock advancing.          *)
(*   SpecRace   threads in _get_cached and _set_cache, statement by        *)
(*              statement.                                                 *)
(*   SpecWorkers two threads in verify_email for one domain, through the   *)
(*              cached MX and deliverability stages, the clock advancing.  *)
(*   SpecFinder one find_best_emails call: generate_patterns, the          *)
(*              priority order, the probe loop, the sort and the slice.    *)
(*   SpecConfig a verify_email call as in Spec, on a verifier with a       *)
(*              domain override table and with the reputation lookup       *)
(*              switched on or off.                                        *)
(*   SpecBulk   one bulk find or verify job, row by row, against the       *)
(*              job manager.                                               *)
(*                                                                         *)
(* Confidence values are Python floats in the source.  They are modelled   *)
(* in fixed point, in units of 1/10000: the quotient security_count / 3    *)
(* is truncated to that precision the way the float quotient is inexact,   *)
(* and round(x, 2) rounds to the nearest multiple of 100 units.            *)
(***************************************************************************)
EXTENDS Integers, Sequences, FiniteSets, TLC

VARIABLES
    \* ---- EmailVerifier object and module configuration
    mx_cache,              \* self._mx_cache: domain -> entry, or NoEntry
    deliverability_cache,  \* self._deliverability_cache
    overrides,             \* DOMAIN_CONFIDENCE_OVERRIDES
    enable_internet_checks,\* self.enable_internet_checks
    now,                   \* time.time()
    resolver_calls,        \* per domain, the calls the MX resolver received
    dns_answer,            \* what the resolver answered to this call, if asked
    \* ---- the verify_email call in progress
    pc,                    \* position in verify_email
    call,                  \* its arguments after normalisation
    mx_check, smtp_result, deliverability, catch_all, internet_check,
    fusion,                \* value returned by calculate_confidence
    result,                \* result["status"], result["confidence"]
    io,                    \* external calls made by this verify_email call
    \* ---- the smtp_handshake call in progress (SpecProbe)
    hpc,                   \* position in smtp_handshake
    hargs,                 \* its arguments
    hres,                  \* its local `result`
    hidx,                  \* index of the next host of mx_hosts[:2]
    hlog,                  \* sessions run so far, one record per host
    \* ---- threads calling _get_cached / _set_cache (SpecRace)
    cache_lock,            \* self._cache_lock: its holder, or None
    threads,               \* per thread: the call it runs and its locals
    \* ---- the find_best_emails call in progress (SpecFinder)
    fpc,                   \* position in find_best_emails
    fargs,                 \* its arguments
    patterns,              \* list returned by generate_patterns
    ordered_patterns,      \* the prioritized list
    findex,                \* index of the next entry of patterns_to_check
    results,               \* local `results`
    returned,              \* what find_best_emails returned
    verified,              \* the verify_email calls made, in order
    best,                  \* what find_best_email made of that list
    \* ---- the bulk job in progress (SpecBulk)
    job                    \* its rows, its position, what it wrote and reported

vars == <<mx_cache, deliverability_cache, overrides, enable_internet_checks,
          now, resolver_calls, dns_answer, pc, call, mx_check, smtp_result,
          deliverability, catch_all, internet_check, fusion, result, io,
          hpc, hargs, hres, hidx, hlog,
          cache_lock, threads,
          fpc, fargs, patterns, ordered_patterns, findex, results, returned,
          verified, best, job>>

verifyVars == <<mx_cache, deliverability_cache, overrides,
                enable_internet_checks, now, resolver_calls, dns_answer, pc,
                call,
                mx_check, smtp_result,
                deliverability, catch_all, internet_check, fusion, result,
                io>>

probeVars == <<hpc, hargs, hres, hidx, hlog>>

raceVars == <<cache_lock, threads>>

finderVars == <<fpc, fargs, patterns, ordered_patterns, findex, results,
                returned, verified, best>>

None == "None"

-----------------------------------------------------------------------------
(* Strings *)

Max(a, b) == IF a >= b THEN a ELSE b
Min(a, b) == IF a <= b THEN a ELSE b

\* Python: p in s
Contains(s, p) ==
    \E i \in 1..(Len(s) - Len(p) + 1) : SubSeq(s, i, i + Len(p) - 1) = p

\* Python: s.endswith(p)
EndsWith(s, p) ==
    /\ Len(p) <= Len(s)
    /\ SubSeq(s, Len(s) - Len(p) + 1, Len(s)) = p

UpperAlphabet == "ABCDEFGHIJKLMNOPQRSTUVWXYZ"
LowerAlphabet == "abcdefghijklmnopqrstuvwxyz"

LowerChar(c) ==
    IF \E i \in 1..Len(UpperAlphabet) : SubSeq(UpperAlphabet, i, i) = c
    THEN LET i == CHOOSE j \in 1..Len(UpperAlphabet) :
                      SubSeq(UpperAlphabet, j, j) = c
         IN  SubSeq(LowerAlphabet, i, i)
    ELSE c

RECURSIVE Lower(_)
\* Python: s.lower()
Lower(s) ==
    IF Len(s) = 0 THEN ""
    ELSE LowerChar(SubSeq(s, 1, 1)) \o Lower(SubSeq(s, 2, Len(s)))

\* index of the first '@' of s (s contains one)
AtIndex(s) ==
    CHOOSE i \in 1..Len(s) :
        /\ SubSeq(s, i, i) = "@"
        /\ \A j \in 1..(i - 1) : SubSeq(s, j, j) # "@"

\* Python: s.split('@', 1)
LocalPart(s) == SubSeq(s, 1, AtIndex(s) - 1)
DomainPart(s) == SubSeq(s, AtIndex(s) + 1, Len(s))

-----------------------------------------------------------------------------
(* smtp_handshake *)

\* self.smtp_blocked_domains
smtp_blocked_domains ==
    { "outlook.com", "hotmail.com", "live.com", "msn.com",
      "gmail.com", "googlemail.com", "yahoo.com", "yahoo.co.uk",
      "aol.com", "icloud.com", "me.com", "mac.com",
      "microsoft.com", "office365.com" }

transactional_patterns ==
    { "inbound-smtp", "amazonaws.com", "sendgrid.net", "mailgun.org",
      "mailgun.com", "sparkpostmail.com", "postmarkapp.com",
      "mandrillapp.com" }

\* a loop over the whole MX list
FirstTwo_All(mx_hosts) == mx_hosts

\* mx_hosts[:2]
FirstTwo(mx_hosts) == SubSeq(mx_hosts, 1, Min(2, Len(mx_hosts)))

NewResult ==
    [accepted |-> FALSE, rejected |-> FALSE, error |-> None,
     mx_used |-> None, skipped |-> FALSE]

\* the test of the blocked-provider loop
IsBlockedDomain(domain) ==
    LET domain_lower == Lower(domain)
    IN  \E blocked \in smtp_blocked_domains :
            \/ Contains(domain_lower, blocked)
            \/ EndsWith(domain_lower, "." \o blocked)

\* the test of the transactional-service loop
IsTransactional(mx_hosts) ==
    LET hosts == FirstTwo(mx_hosts)
    IN  \E k \in 1..Len(hosts) :
            \E pattern \in transactional_patterns :
                Contains(Lower(hosts[k]), pattern)

\* skip rules without the transactional-service rule
SkipRules_BlockedOnly(domain, mx_hosts) ==
    IF IsBlockedDomain(domain)
    THEN [NewResult EXCEPT
            !.skipped = TRUE,
            !.error = "SMTP check skipped (domain typically blocks verification)"]
    ELSE NewResult

\* The two skip rules, in the order of the code: the result returned before
\* any session is opened, or NewResult when neither rule fires.
SkipRules(domain, mx_hosts) ==
    IF IsBlockedDomain(domain)
    THEN [NewResult EXCEPT
            !.skipped = TRUE,
            !.error = "SMTP check skipped (domain typically blocks verification)"]
    ELSE IF IsTransactional(mx_hosts)
    THEN [NewResult EXCEPT
            !.skipped = TRUE,
            !.error = "SMTP check skipped (transactional email service - does not support mailbox verification)"]
    ELSE NewResult

(* What one mail host does in one session.  failAt is the call that raises *)
(* ("never" when none does), fail the exception raised, mail and rcpt the  *)
(* reply codes of MAIL FROM and RCPT TO.  smtplib raises                   *)
(* SMTPServerDisconnected from any command whose reply does not arrive,    *)
(* QUIT included, and socket.timeout / OSError from connect.               *)
Session(failAt, fail, mail, rcpt) ==
    [failAt |-> failAt, fail |-> fail, mail |-> mail, rcpt |-> rcpt]

RcptCodes == {250, 251, 550, 553, 450, 451, 421, 500, 552, 599, 354, 600}

Replies ==
    {Session("create", f, 0, 0) : f \in {"gaierror", "timeout", "error"}}
    \cup {Session("connect", f, 0, 0) :
            f \in {"disconnected", "timeout", "gaierror"}}
    \cup {Session("mail", "timeout", 0, 0), Session("never", "none", 550, 0),
          Session("rcpt", "disconnected", 250, 0)}
    \cup {Session("never", "none", 250, c) : c \in RcptCodes}
    \cup {Session("quit", "disconnected", 251, 250),
          Session("quit", "timeout", 250, 550)}

\* inner handlers that count a timeout as a rejection
InnerExcept_TimeoutRejects(res, fail) ==
    CASE fail = "disconnected" -> res
      [] fail = "timeout" -> [res EXCEPT !.rejected = TRUE,
                                         !.error = "Connection timeout"]
      [] OTHER -> [res EXCEPT !.error = "SMTP error: " \o fail]

\* the handlers of the inner try (lines 359-366)
InnerExcept(res, fail) ==
    CASE fail = "disconnected" -> res
      [] fail = "timeout" -> [res EXCEPT !.error = "Connection timeout"]
      [] OTHER -> [res EXCEPT !.error = "SMTP error: " \o fail]

\* the handlers of the outer try (lines 368-374)
OuterExcept(res, fail) ==
    CASE fail = "gaierror" -> res
      [] fail = "timeout" -> res
      [] OTHER -> [res EXCEPT !.error = "Connection error: " \o fail]

\* an interpretation that marks a greylisted address rejected before it
\* tries the next host
InterpretResponse_GreylistRejects(res, mx_host, code) ==
    IF code \in {250, 251}
    THEN [res |-> [res EXCEPT !.accepted = TRUE, !.mx_used = mx_host],
          decision |-> "accepted"]
    ELSE IF code \in {550, 553}
    THEN [res |-> [res EXCEPT !.rejected = TRUE,
                              !.error = "Mailbox does not exist",
                              !.mx_used = mx_host],
          decision |-> "rejected"]
    ELSE IF code \in {450, 451}
    THEN [res |-> [res EXCEPT !.rejected = TRUE,
                              !.error = "Temporarily unavailable (greylisted)",
                              !.mx_used = mx_host],
          decision |-> "continue"]
    ELSE IF code = 421
    THEN [res |-> [res EXCEPT !.error = "Service unavailable"],
          decision |-> "continue"]
    ELSE IF 500 <= code /\ code < 600
    THEN [res |-> [res EXCEPT !.rejected = TRUE,
                              !.error = "Permanent SMTP error: " \o ToString(code),
                              !.mx_used = mx_host],
          decision |-> "rejected"]
    ELSE [res |-> [res EXCEPT !.error = "Unexpected response: " \o ToString(code)],
          decision |-> "continue"]

\* "Interpret response" (lines 330-357): the result and whether the loop
\* returns it ("accepted", "rejected") or goes on ("continue").
InterpretResponse(res, mx_host, code) ==
    IF code \in {250, 251}
    THEN [res |-> [res EXCEPT !.accepted = TRUE, !.mx_used = mx_host],
          decision |-> "accepted"]
    ELSE IF code \in {550, 553}
    THEN [res |-> [res EXCEPT !.rejected = TRUE,
                              !.error = "Mailbox does not exist",
                              !.mx_used = mx_host],
          decision |-> "rejected"]
    ELSE IF code \in {450, 451}
    THEN [res |-> [res EXCEPT !.error = "Temporarily unavailable (greylisted)",
                              !.mx_used = mx_host],
          decision |-> "continue"]
    ELSE IF code = 421
    THEN [res |-> [res EXCEPT !.error = "Service unavailable"],
          decision |-> "continue"]
    ELSE IF 500 <= code /\ code < 600
    THEN [res |-> [res EXCEPT !.rejected = TRUE,
                              !.error = "Permanent SMTP error: " \o ToString(code),
                              !.mx_used = mx_host],
          decision |-> "rejected"]
    ELSE [res |-> [res EXCEPT !.error = "Unexpected response: " \o ToString(code)],
          decision |-> "continue"]

\* the record of one session: which commands were sent and what came of it
LogEntry(mx_host, reply, connected, mailSent, rcptSent, rcptReplied, decision) ==
    [host |-> mx_host, reply |-> reply, connected |-> connected,
     mailSent |-> mailSent, rcptSent |-> rcptSent,
     rcptReplied |-> rcptReplied, decision |-> decision]

\* One iteration of "for mx_host in mx_hosts[:2]" (lines 304-374).
HostStep(res, mx_host, reply) ==
    IF reply.failAt = "create"
    THEN [res |-> OuterExcept(res, reply.fail), decision |-> "continue",
          entry |-> LogEntry(mx_host, reply, FALSE, FALSE, FALSE, FALSE, "continue")]
    ELSE IF reply.failAt = "connect"
    THEN [res |-> InnerExcept(res, reply.fail), decision |-> "continue",
          entry |-> LogEntry(mx_host, reply, TRUE, FALSE, FALSE, FALSE, "continue")]
    ELSE IF reply.failAt = "mail"
    THEN [res |-> InnerExcept(res, reply.fail), decision |-> "continue",
          entry |-> LogEntry(mx_host, reply, TRUE, TRUE, FALSE, FALSE, "continue")]
    ELSE IF reply.mail \notin {250, 251}
    THEN \* server.quit(); continue
         [res |-> IF reply.failAt = "quit"
                  THEN InnerExcept(res, reply.fail) ELSE res,
          decision |-> "continue",
          entry |-> LogEntry(mx_host, reply, TRUE, TRUE, FALSE, FALSE, "continue")]
    ELSE IF reply.failAt = "rcpt"
    THEN [res |-> InnerExcept(res, reply.fail), decision |-> "continue",
          entry |-> LogEntry(mx_host, reply, TRUE, TRUE, TRUE, FALSE, "continue")]
    ELSE IF reply.failAt = "quit"
    THEN \* server.quit() raises before the reply code is interpreted
         [res |-> InnerExcept(res, reply.fail), decision |-> "continue",
          entry |-> LogEntry(mx_host, reply, TRUE, TRUE, TRUE, TRUE, "continue")]
    ELSE LET r == InterpretResponse(res, mx_host, reply.rcpt)
         IN  [res |-> r.res, decision |-> r.decision,
              entry |-> LogEntry(mx_host, reply, TRUE, TRUE, TRUE, TRUE, r.decision)]

\* lines 376-380: every probed host failed
AllHostsFailed(res) ==
    IF res.error = None
    THEN [res EXCEPT !.error = "Could not connect to any MX server"]
    ELSE res

RECURSIVE HostLoop(_, _, _, _, _)
\* the host loop from host i on; replies[k] is what host k does
HostLoop(res, hosts, replies, i, log) ==
    IF i > Len(hosts)
    THEN [result |-> AllHostsFailed(res), log |-> log]
    ELSE LET s == HostStep(res, hosts[i], replies[i])
         IN  IF s.decision = "continue"
             THEN HostLoop(s.res, hosts, replies, i + 1, Append(log, s.entry))
             ELSE [result |-> s.res, log |-> Append(log, s.entry)]

\* server.connect calls of a handshake
Connections(log) == Cardinality({k \in 1..Len(log) : log[k].connected})

-----------------------------------------------------------------------------
(* The lookup cache *)

\* self.cache_ttl, seconds
cache_ttl == 3600

\* a read that renews the entry it returns
get_cached_Touch(cache, key, t) ==
    IF key \notin DOMAIN cache
    THEN [hit |-> FALSE, cache |-> cache]
    ELSE IF cache[key].expires_at > t
    THEN [hit |-> TRUE, value |-> cache[key].value,
          cache |-> [cache EXCEPT ![key].expires_at = t + 3600]]
    ELSE [hit |-> FALSE,
          cache |-> [k \in (DOMAIN cache) \ {key} |-> cache[k]]]

\* _get_cached(cache, key) at time t: whether a value is returned (a miss
\* returns None), the value, and the cache as the call leaves it.
\* The cache is a function from the keys it holds to their entries.
get_cached(cache, key, t) ==
    IF key \notin DOMAIN cache
    THEN [hit |-> FALSE, cache |-> cache]
    ELSE IF cache[key].expires_at > t
    THEN [hit |-> TRUE, value |-> cache[key].value, cache |-> cache]
    ELSE [hit |-> FALSE,
          cache |-> [k \in (DOMAIN cache) \ {key} |-> cache[k]]]

\* _set_cache(cache, key, value) at time t
set_cache(cache, key, value, t) ==
    [k \in (DOMAIN cache) \cup {key} |->
        IF k = key THEN [value |-> value, expires_at |-> t + cache_ttl]
        ELSE cache[k]]

-----------------------------------------------------------------------------
(* check_mx_records *)

MxRecord(priority, host) == [priority |-> priority, host |-> host]

RECURSIVE InsertByPriority(_, _)
\* insertion after the entries of lower or equal priority: list.sort is stable
InsertByPriority(sorted, mx) ==
    IF sorted = <<>> THEN <<mx>>
    ELSE IF mx.priority < Head(sorted).priority THEN <<mx>> \o sorted
    ELSE <<Head(sorted)>> \o InsertByPriority(Tail(sorted), mx)

\* the hosts left in the order of the answer
SortByPriority_AnswerOrder(records) == records

RECURSIVE SortByPriority(_)
\* mx_hosts.sort(key=lambda x: x["priority"])
SortByPriority(records) ==
    IF records = <<>> THEN <<>>
    ELSE InsertByPriority(SortByPriority(SubSeq(records, 1, Len(records) - 1)),
                          records[Len(records)])

\* What the resolver answers for a domain: mx is "records" (with the MX
\* records, in answer order), "nxdomain", "noanswer" or "error"; a is
\* whether the address-record query of the NoAnswer fallback succeeds.
DnsAnswer(mx, records, a) == [mx |-> mx, records |-> records, a |-> a]

\* the resolver was not asked
NotAsked == DnsAnswer("none", <<>>, FALSE)

DnsAnswers ==
    { DnsAnswer("records", << MxRecord(20, "mx2.corp.io"),
                              MxRecord(10, "mx1.corp.io"),
                              MxRecord(30, "mx3.corp.io") >>, TRUE),
      DnsAnswer("records", << MxRecord(10, "inbound-smtp.eu.amazonaws.com") >>,
                TRUE),
      DnsAnswer("nxdomain", <<>>, FALSE),
      DnsAnswer("noanswer", <<>>, TRUE),
      DnsAnswer("noanswer", <<>>, FALSE),
      DnsAnswer("error", <<>>, FALSE) }

check_mx_records(domain, answer) ==
    IF answer.mx = "records"
    THEN LET mx_hosts == SortByPriority(answer.records)
         IN  [valid |-> TRUE,
              mx_hosts |-> [i \in 1..Len(mx_hosts) |-> mx_hosts[i].host],
              mx_details |-> mx_hosts, error |-> None]
    ELSE IF answer.mx = "nxdomain"
    THEN [valid |-> FALSE, mx_hosts |-> <<>>, mx_details |-> <<>>,
          error |-> "Domain does not exist"]
    ELSE IF answer.mx = "noanswer"
    THEN IF answer.a
         THEN [valid |-> TRUE, mx_hosts |-> <<domain>>,
               mx_details |-> <<MxRecord(0, domain)>>, error |-> None]
         ELSE [valid |-> FALSE, mx_hosts |-> <<>>, mx_details |-> <<>>,
               error |-> "No MX records found"]
    ELSE [valid |-> FALSE, mx_hosts |-> <<>>, mx_details |-> <<>>,
          error |-> "DNS lookup failed"]

-----------------------------------------------------------------------------
(* check_deliverability, detect_catch_all *)

\* The flags check_deliverability returns; spf, dkim and dmarc are whether
\* the TXT lookups found a v=spf1 record, a key under one of the common
\* selectors and a v=DMARC1 record.
check_deliverability(spf, dkim, dmarc) ==
    [spf |-> spf, dkim |-> dkim, dmarc |-> dmarc, skipped |-> FALSE]

\* k of random.choices(..., k=15)
RandomLength == 15

\* values random.choices may draw (two of the 36^15)
RandomStrings == {s \in {"qqqqqqqqqqqqqqq", "x7k2m9p4w1z8c3v"} : Len(s) = RandomLength}

-----------------------------------------------------------------------------
(* calculate_confidence *)

\* fixed-point unit: 1.0
Unit == 100 * 100

\* the weights and thresholds of calculate_confidence, in 1/10000
W_ACCEPTED == 6000
W_MX == 1000
W_NOT_CATCHALL == 1500
W_SECURITY == 1500
FLOOR_SECURE == 6500
FLOOR_SKIPPED == 6000
AGGRESSIVE_BONUS == 1000
AGGRESSIVE_CAP == 9500

\* a fusion that does not round
Round2_Missing(c) == c

\* round(confidence, 2)
Round2(c) == ((c + 50) \div 100) * 100

\* sum([spf, dkim, dmarc])
SecurityCount(d) ==
    (IF d.spf THEN 1 ELSE 0) + (IF d.dkim THEN 1 ELSE 0)
        + (IF d.dmarc THEN 1 ELSE 0)

\* (security_count / 3) * 0.15
SecurityCredit(d) ==
    (((SecurityCount(d) * Unit) \div 3) * W_SECURITY) \div Unit

\* the sum of lines 476-500 (no rejection)
BaseConfidence(smtp, catch, mx, d) ==
    (IF smtp.accepted THEN W_ACCEPTED ELSE 0)
        + (IF mx.valid THEN W_MX ELSE 0)
        + (IF ~catch.is_catchall THEN W_NOT_CATCHALL ELSE 0)
        + SecurityCredit(d)

\* the aggressive adjustments with the bonus applied before the floors
AggressiveAdjust_BonusFirst(c, smtp, catch, mx, d) ==
    LET domain_secure == d.spf \/ d.dmarc
        c0 == IF ~catch.is_catchall /\ mx.valid
              THEN Min(c + AGGRESSIVE_BONUS, AGGRESSIVE_CAP) ELSE c
        c1 == IF ~smtp.accepted /\ mx.valid /\ domain_secure
              THEN Max(c0, FLOOR_SECURE) ELSE c0
    IN  IF smtp.skipped /\ mx.valid THEN Max(c1, FLOOR_SKIPPED) ELSE c1

\* the aggressive adjustments with domain_secure read from spf alone
AggressiveAdjust_SpfOnly(c, smtp, catch, mx, d) ==
    LET domain_secure == d.spf
        c1 == IF ~smtp.accepted /\ mx.valid /\ domain_secure
              THEN Max(c, FLOOR_SECURE) ELSE c
        c2 == IF smtp.skipped /\ mx.valid THEN Max(c1, FLOOR_SKIPPED) ELSE c1
    IN  IF ~catch.is_catchall /\ mx.valid
        THEN Min(c2 + AGGRESSIVE_BONUS, AGGRESSIVE_CAP) ELSE c2

\* the aggressive adjustments with a bonus that is not capped
AggressiveAdjust_NoCap(c, smtp, catch, mx, d) ==
    LET domain_secure == d.spf \/ d.dmarc
        c1 == IF ~smtp.accepted /\ mx.valid /\ domain_secure
              THEN Max(c, FLOOR_SECURE) ELSE c
        c2 == IF smtp.skipped /\ mx.valid THEN Max(c1, FLOOR_SKIPPED) ELSE c1
    IN  IF ~catch.is_catchall /\ mx.valid
        THEN c2 + AGGRESSIVE_BONUS ELSE c2

\* the aggressive adjustments with the bonus capped at 0.90
AggressiveAdjust_LowCap(c, smtp, catch, mx, d) ==
    LET domain_secure == d.spf \/ d.dmarc
        c1 == IF ~smtp.accepted /\ mx.valid /\ domain_secure
              THEN Max(c, FLOOR_SECURE) ELSE c
        c2 == IF smtp.skipped /\ mx.valid THEN Max(c1, FLOOR_SKIPPED) ELSE c1
    IN  IF ~catch.is_catchall /\ mx.valid
        THEN Min(c2 + AGGRESSIVE_BONUS, AGGRESSIVE_CAP - 500) ELSE c2

\* lines 503-510
AggressiveAdjust(c, smtp, catch, mx, d) ==
    LET domain_secure == d.spf \/ d.dmarc
        c1 == IF ~smtp.accepted /\ mx.valid /\ domain_secure
              THEN Max(c, FLOOR_SECURE) ELSE c
        c2 == IF smtp.skipped /\ mx.valid THEN Max(c1, FLOOR_SKIPPED) ELSE c1
    IN  IF ~catch.is_catchall /\ mx.valid
        THEN Min(c2 + AGGRESSIVE_BONUS, AGGRESSIVE_CAP) ELSE c2

\* a fusion without the early return on rejection
calculate_confidence_NoShortCircuit(smtp, catch, mx, d, confidence_mode) ==
    LET c == BaseConfidence(smtp, catch, mx, d)
    IN  Round2(IF confidence_mode = "aggressive"
               THEN AggressiveAdjust(c, smtp, catch, mx, d) ELSE c)

calculate_confidence(smtp, catch, mx, d, confidence_mode) ==
    IF ~smtp.accepted /\ smtp.rejected THEN 0
    ELSE LET c == BaseConfidence(smtp, catch, mx, d)
         IN  Round2(IF confidence_mode = "aggressive"
                    THEN AggressiveAdjust(c, smtp, catch, mx, d) ELSE c)

-----------------------------------------------------------------------------
(* verify_email: status and overrides *)

\* the boosts and caps of the likely_valid branches, in 1/10000
BOOST_SKIPPED == 1500
CAP_SKIPPED == 7500
BOOST_TIMEOUT == 1000
CAP_TIMEOUT == 7000

\* a status rule that counts dkim among the security records
DetermineStatus_DkimCounts(smtp, catch, mx, d, confidence) ==
    LET secure == d.spf \/ d.dkim \/ d.dmarc
    IN  IF smtp.skipped
        THEN IF mx.valid /\ secure
             THEN [status |-> "likely_valid",
                   confidence |-> Min(CAP_SKIPPED, confidence + BOOST_SKIPPED)]
             ELSE [status |-> "unknown", confidence |-> confidence]
        ELSE IF smtp.accepted
        THEN IF catch.is_catchall
             THEN [status |-> "catch-all", confidence |-> confidence]
             ELSE [status |-> "valid", confidence |-> confidence]
        ELSE IF smtp.rejected
        THEN [status |-> "invalid", confidence |-> confidence]
        ELSE IF mx.valid /\ secure
             THEN [status |-> "likely_valid",
                   confidence |-> Min(CAP_TIMEOUT, confidence + BOOST_TIMEOUT)]
             ELSE [status |-> "unknown", confidence |-> confidence]

\* a status rule whose boosts are not capped
DetermineStatus_NoCap(smtp, catch, mx, d, confidence) ==
    IF smtp.skipped
    THEN IF mx.valid /\ (d.spf \/ d.dmarc)
         THEN [status |-> "likely_valid",
               confidence |-> confidence + BOOST_SKIPPED]
         ELSE [status |-> "unknown", confidence |-> confidence]
    ELSE IF smtp.accepted
    THEN IF catch.is_catchall
         THEN [status |-> "catch-all", confidence |-> confidence]
         ELSE [status |-> "valid", confidence |-> confidence]
    ELSE IF smtp.rejected
    THEN [status |-> "invalid", confidence |-> confidence]
    ELSE IF mx.valid /\ (d.spf \/ d.dmarc)
         THEN [status |-> "likely_valid",
               confidence |-> confidence + BOOST_TIMEOUT]
         ELSE [status |-> "unknown", confidence |-> confidence]

\* a status rule that caps the boost of a skipped probe at 0.70 as well
DetermineStatus_OneCap(smtp, catch, mx, d, confidence) ==
    IF smtp.skipped
    THEN IF mx.valid /\ (d.spf \/ d.dmarc)
         THEN [status |-> "likely_valid",
               confidence |-> Min(CAP_TIMEOUT, confidence + BOOST_SKIPPED)]
         ELSE [status |-> "unknown", confidence |-> confidence]
    ELSE IF smtp.accepted
    THEN IF catch.is_catchall
         THEN [status |-> "catch-all", confidence |-> confidence]
         ELSE [status |-> "valid", confidence |-> confidence]
    ELSE IF smtp.rejected
    THEN [status |-> "invalid", confidence |-> confidence]
    ELSE IF mx.valid /\ (d.spf \/ d.dmarc)
         THEN [status |-> "likely_valid",
               confidence |-> Min(CAP_TIMEOUT, confidence + BOOST_TIMEOUT)]
         ELSE [status |-> "unknown", confidence |-> confidence]

\* "Determine status" (lines 160-190): status and confidence of the result
DetermineStatus(smtp, catch, mx, d, confidence) ==
    IF smtp.skipped
    THEN IF mx.valid /\ (d.spf \/ d.dmarc)
         THEN [status |-> "likely_valid",
               confidence |-> Min(CAP_SKIPPED, confidence + BOOST_SKIPPED)]
         ELSE [status |-> "unknown", confidence |-> confidence]
    ELSE IF smtp.accepted
    THEN IF catch.is_catchall
         THEN [status |-> "catch-all", confidence |-> confidence]
         ELSE [status |-> "valid", confidence |-> confidence]
    ELSE IF smtp.rejected
    THEN [status |-> "invalid", confidence |-> confidence]
    ELSE IF mx.valid /\ (d.spf \/ d.dmarc)
         THEN [status |-> "likely_valid",
               confidence |-> Min(CAP_TIMEOUT, confidence + BOOST_TIMEOUT)]
         ELSE [status |-> "unknown", confidence |-> confidence]

\* DOMAIN_CONFIDENCE_OVERRIDES as shipped: {}
DefaultOverrides == [d \in {} |-> 0]

\* An entry of the table: min_confidence and force_status, each optional.
Override(has_min, min_confidence, has_force, force_status) ==
    [has_min |-> has_min, min_confidence |-> min_confidence,
     has_force |-> has_force, force_status |-> force_status]

\* lines 192-200
ApplyOverride(res, domain, table) ==
    IF domain \notin DOMAIN table THEN res
    ELSE LET o == table[domain]
             r1 == IF o.has_min
                   THEN [res EXCEPT
                           !.confidence = Max(res.confidence, o.min_confidence)]
                   ELSE res
         IN  IF o.has_force THEN [r1 EXCEPT !.status = o.force_status] ELSE r1

-----------------------------------------------------------------------------
(* State of a verify_email call *)

\* arguments of verify_email
Emails == {"bob@corp.io", "Ann@Gmail.com", "bob", ""}
\* "" stands for None and the empty string
Modes == {"balanced", "aggressive", "AGGRESSIVE", "strict", ""}

NoCall ==
    [email |-> "", domain |-> "", fast_mode |-> TRUE,
     confidence_mode |-> "balanced", internet_checks |-> TRUE]

\* the fields of the smtp_handshake result that verify_email and
\* calculate_confidence read (error only enters the reason text)
Verdict(res) ==
    [accepted |-> res.accepted, rejected |-> res.rejected,
     skipped |-> res.skipped]

NoMx == [valid |-> FALSE, mx_hosts |-> <<>>, mx_details |-> <<>>, error |-> None]
NoDeliverability == [spf |-> FALSE, dkim |-> FALSE, dmarc |-> FALSE, skipped |-> FALSE]
NoCatchAll == [is_catchall |-> FALSE, test_email |-> None, skipped |-> FALSE]
\* result as initialised on lines 92-98
NewVerification == [status |-> "unknown", confidence |-> 0]

\* external calls made during one verify_email call
NoIo ==
    [resolver |-> 0,            \* check_mx_records
     smtp_calls |-> 0,          \* smtp_handshake for the address
     deliverability |-> 0,      \* check_deliverability
     smtp_sessions |-> 0,       \* connections it opened
     catchall_calls |-> 0,      \* smtp_handshake for the random address
     catchall_sessions |-> 0,   \* connections it opened
     catchall_accepted |-> FALSE, \* whether that handshake was accepted
     internet |-> 0]            \* check_internet_presence

\* locals of smtp_handshake when no handshake is in progress
NoProbe ==
    /\ hpc = "none"
    /\ hargs = [email |-> "", domain |-> "", mx_hosts |-> <<>>]
    /\ hres = NewResult
    /\ hidx = 1
    /\ hlog = <<>>

\* no thread is in the cache
NoRace ==
    /\ cache_lock = None
    /\ threads = [t \in {} |-> 0]

\* find_best_email has not returned; its value is <<>> for None and <<r>>
\* for the result r
NoBest == [returned |-> FALSE, value |-> <<>>]

\* no bulk job
NoJob == job = [status |-> "none"]

\* locals of find_best_emails when no search is in progress
NoFinder ==
    /\ fpc = "none"
    /\ fargs = [first_name |-> "", last_name |-> "", domain |-> ""]
    /\ patterns = <<>>
    /\ ordered_patterns = <<>>
    /\ findex = 1
    /\ results = <<>>
    /\ returned = <<>>
    /\ verified = <<>>
    /\ best = NoBest

\* state of EmailVerifier after __init__, module configuration as shipped
\* line 51: os.getenv('ENABLE_INTERNET_CHECKS', 'true') with no variable set
InitEnableInternetChecks == TRUE

InitVerifier ==
    /\ mx_cache = [d \in {} |-> 0]
    /\ deliverability_cache = [d \in {} |-> 0]
    /\ overrides = DefaultOverrides
    /\ enable_internet_checks = InitEnableInternetChecks
    /\ now = 0
    /\ resolver_calls = [d \in {} |-> 0]

NoVerification ==
    /\ pc = "idle"
    /\ dns_answer = NotAsked
    /\ call = NoCall
    /\ mx_check = NoMx
    /\ smtp_result = Verdict(NewResult)
    /\ deliverability = NoDeliverability
    /\ catch_all = NoCatchAll
    /\ internet_check = "absent"
    /\ fusion = 0
    /\ result = NewVerification
    /\ io = NoIo

Init ==
    InitVerifier /\ NoVerification /\ NoProbe /\ NoRace /\ NoFinder /\ NoJob

-----------------------------------------------------------------------------
(* smtp_handshake and detect_catch_all as called by verify_email *)

\* the domains verify_email is called on
CallDomains == {DomainPart(Lower(e)) : e \in {x \in Emails : Contains(x, "@")}}

\* the host lists mx_hosts[:2] that reach smtp_handshake
HostLists ==
    {FirstTwo(check_mx_records(d, a).mx_hosts) : d \in CallDomains, a \in DnsAnswers}

\* For each host list, what the host loop can return, over every behaviour
\* of the hosts: the dictionary returned and the connections opened.
LoopOutcomes ==
    [hosts \in HostLists |->
        {LET h == HostLoop(NewResult, hosts, replies, 1, <<>>)
         IN  [result |-> h.result, sessions |-> Connections(h.log)] :
            replies \in [1..2 -> Replies]}]

\* smtp_handshake(email, domain, mx_hosts): the outcomes it can have
smtp_handshake(email, domain, mx_hosts) ==
    LET skip == SkipRules(domain, mx_hosts)
    IN  IF skip.skipped
        THEN {[result |-> skip, sessions |-> 0]}
        ELSE LoopOutcomes[FirstTwo(mx_hosts)]

\* a catch-all detector that takes every probe not rejected for an acceptance
detect_catch_all_NotRejected(domain, mx_hosts, random_string) ==
    LET test_email == random_string \o "@" \o domain
    IN  {[result |-> [is_catchall |-> ~probe.result.rejected,
                      test_email |-> test_email, skipped |-> FALSE],
          accepted |-> probe.result.accepted, sessions |-> probe.sessions] :
            probe \in smtp_handshake(test_email, domain, mx_hosts)}

\* detect_catch_all(domain, mx_hosts), the random string given: the
\* dictionaries it can return, each with whether its handshake was accepted
\* and the connections it opened
detect_catch_all(domain, mx_hosts, random_string) ==
    LET test_email == random_string \o "@" \o domain
    IN  {[result |-> [is_catchall |-> probe.result.accepted,
                      test_email |-> test_email, skipped |-> FALSE],
          accepted |-> probe.result.accepted, sessions |-> probe.sessions] :
            probe \in smtp_handshake(test_email, domain, mx_hosts)}

-----------------------------------------------------------------------------
(* verify_email, stage by stage *)

config == <<overrides, enable_internet_checks>>

\* lines 81-100: format check, split, mode normalisation
Call(email, fast_mode, confidence_mode, internet_checks) ==
    /\ pc = "idle"
    /\ io' = NoIo
    /\ IF email = "" \/ ~Contains(email, "@")
       THEN /\ call' = [NoCall EXCEPT !.email = email]
            /\ result' = [status |-> "invalid", confidence |-> 0]
            /\ pc' = "done"
       ELSE /\ call' = [email |-> email,
                        domain |-> DomainPart(Lower(email)),
                        fast_mode |-> fast_mode,
                        confidence_mode |->
                            Lower(IF confidence_mode = "" THEN "balanced"
                                  ELSE confidence_mode),
                        internet_checks |-> internet_checks]
            /\ result' = NewVerification
            /\ pc' = "mx"
    /\ dns_answer' = NotAsked
    /\ UNCHANGED <<mx_cache, deliverability_cache, config, now,
                   resolver_calls, mx_check,
                   smtp_result, deliverability, catch_all, internet_check,
                   fusion>>
    /\ UNCHANGED <<probeVars, raceVars, finderVars, job>>

\* a verify_email that goes on to the SMTP probe whatever the MX record says
MxInvalid_NoEarlyReturn(mx) == FALSE

\* line 109: if not mx_check["valid"]
MxInvalid(mx) == ~mx.valid

\* the resolver's record after a query for domain at time t: how many
\* queries it received for the domain and when the last one came
Resolved(calls, domain, t) ==
    [d \in (DOMAIN calls) \cup {domain} |->
        IF d = domain
        THEN [count |-> IF domain \in DOMAIN calls
                        THEN calls[domain].count + 1 ELSE 1,
              last |-> t]
        ELSE calls[d]]

\* Step 1 (lines 102-113): MX check through the cache
MxCheck ==
    /\ pc = "mx"
    /\ LET got == get_cached(mx_cache, call.domain, now)
       IN  \E answer \in DnsAnswers :
             LET mx == IF got.hit THEN got.value
                       ELSE check_mx_records(call.domain, answer)
             IN  /\ mx_check' = mx
                 /\ mx_cache' = IF got.hit THEN got.cache
                                ELSE set_cache(got.cache, call.domain, mx, now)
                 /\ io' = IF got.hit THEN io
                          ELSE [io EXCEPT !.resolver = @ + 1]
                 /\ resolver_calls' =
                        IF got.hit THEN resolver_calls
                        ELSE Resolved(resolver_calls, call.domain, now)
                 /\ dns_answer' = IF got.hit THEN dns_answer ELSE answer
                 /\ IF MxInvalid(mx)
                    THEN /\ result' = [status |-> "invalid", confidence |-> 0]
                         /\ pc' = "done"
                    ELSE /\ result' = result
                         /\ pc' = "smtp"
    /\ UNCHANGED <<deliverability_cache, config, now, call, smtp_result,
                   deliverability, catch_all, internet_check, fusion>>
    /\ UNCHANGED <<probeVars, raceVars, finderVars, job>>

\* Step 2 (lines 115-117): SMTP handshake for the address
SmtpProbe ==
    /\ pc = "smtp"
    /\ \E probe \in smtp_handshake(call.email, call.domain, mx_check.mx_hosts) :
         /\ smtp_result' = Verdict(probe.result)
         /\ io' = [io EXCEPT !.smtp_calls = @ + 1,
                             !.smtp_sessions = @ + probe.sessions]
    /\ pc' = "deliverability"
    /\ UNCHANGED <<mx_cache, deliverability_cache, config, dns_answer, now,
                   resolver_calls, call, mx_check,
                   deliverability, catch_all, internet_check, fusion, result>>
    /\ UNCHANGED <<probeVars, raceVars, finderVars, job>>

\* Step 3 (lines 119-127): deliverability through the cache
Deliverability ==
    /\ pc = "deliverability"
    /\ LET got == get_cached(deliverability_cache, call.domain, now)
       IN  \E spf \in BOOLEAN, dkim \in BOOLEAN, dmarc \in BOOLEAN :
             LET d == IF got.hit THEN got.value
                      ELSE check_deliverability(spf, dkim, dmarc)
             IN  /\ deliverability' = [d EXCEPT !.skipped = FALSE]
                 /\ deliverability_cache' =
                        IF got.hit THEN got.cache
                        ELSE set_cache(got.cache, call.domain, d, now)
                 /\ io' = IF got.hit THEN io
                          ELSE [io EXCEPT !.deliverability = @ + 1]
    /\ pc' = "catch_all"
    /\ UNCHANGED <<mx_cache, config, dns_answer, now,
                   resolver_calls, call, mx_check, smtp_result,
                   catch_all, internet_check, fusion, result>>
    /\ UNCHANGED <<probeVars, raceVars, finderVars, job>>

\* Step 4 (lines 129-139): catch-all detection
CatchAll ==
    /\ pc = "catch_all"
    /\ IF call.fast_mode
       THEN /\ catch_all' = [is_catchall |-> FALSE, test_email |-> None,
                             skipped |-> TRUE]
            /\ io' = io
       ELSE \E random_string \in RandomStrings :
              \E c \in detect_catch_all(call.domain, mx_check.mx_hosts,
                                        random_string) :
                /\ catch_all' = [c.result EXCEPT !.skipped = FALSE]
                /\ io' = [io EXCEPT !.catchall_calls = @ + 1,
                                    !.catchall_sessions = @ + c.sessions,
                                    !.catchall_accepted = c.accepted]
    /\ pc' = "internet"
    /\ UNCHANGED <<mx_cache, deliverability_cache, config, dns_answer, now,
                   resolver_calls, call, mx_check,
                   smtp_result, deliverability, internet_check, fusion, result>>
    /\ UNCHANGED <<probeVars, raceVars, finderVars, job>>

\* reputation lookups whose exception leaves verify_email
InternetCheck_Uncaught ==
    /\ pc = "internet"
    /\ IF call.internet_checks \/ enable_internet_checks
       THEN \E raises \in BOOLEAN :
              /\ internet_check' = IF raises THEN "error" ELSE "present"
              /\ io' = [io EXCEPT !.internet = @ + 1]
              /\ pc' = IF raises THEN "raised" ELSE "classify"
       ELSE /\ internet_check' = "absent"
            /\ io' = io
            /\ pc' = "classify"
    /\ UNCHANGED <<mx_cache, deliverability_cache, config, dns_answer, now,
                   resolver_calls, call, mx_check,
                   smtp_result, deliverability, catch_all, fusion, result>>
    /\ UNCHANGED <<probeVars, raceVars, finderVars, job>>

\* a step 5 that makes the lookups whatever the caller and the verifier say
InternetCheck_Mandatory ==
    /\ pc = "internet"
    /\ \E raises \in BOOLEAN :
          /\ internet_check' = IF raises THEN "error" ELSE "present"
          /\ io' = [io EXCEPT !.internet = @ + 1]
    /\ pc' = "classify"
    /\ UNCHANGED <<mx_cache, deliverability_cache, config, dns_answer, now,
                   resolver_calls, call, mx_check,
                   smtp_result, deliverability, catch_all, fusion, result>>
    /\ UNCHANGED <<probeVars, raceVars, finderVars, job>>

\* Step 5 (lines 141-149): reputation lookups
InternetCheck ==
    /\ pc = "internet"
    /\ IF call.internet_checks \/ enable_internet_checks
       THEN \E raises \in BOOLEAN :
              /\ internet_check' = IF raises THEN "error" ELSE "present"
              /\ io' = [io EXCEPT !.internet = @ + 1]
       ELSE /\ internet_check' = "absent"
            /\ io' = io
    /\ pc' = "classify"
    /\ UNCHANGED <<mx_cache, deliverability_cache, config, dns_answer, now,
                   resolver_calls, call, mx_check,
                   smtp_result, deliverability, catch_all, fusion, result>>
    /\ UNCHANGED <<probeVars, raceVars, finderVars, job>>

\* a classification that gives up when the reputation lookup failed
Classify_ReputationGates ==
    /\ pc = "classify"
    /\ LET confidence == calculate_confidence(smtp_result, catch_all, mx_check,
                                              deliverability,
                                              call.confidence_mode)
       IN  /\ fusion' = confidence
           /\ result' = IF internet_check = "error"
                        THEN [status |-> "unknown", confidence |-> 0]
                        ELSE ApplyOverride(
                                DetermineStatus(smtp_result, catch_all,
                                                mx_check, deliverability,
                                                confidence),
                                call.domain, overrides)
    /\ pc' = "done"
    /\ UNCHANGED <<mx_cache, deliverability_cache, config, dns_answer, now,
                   resolver_calls, call, mx_check,
                   smtp_result, deliverability, catch_all, internet_check, io>>
    /\ UNCHANGED <<probeVars, raceVars, finderVars, job>>

\* lines 151-202: confidence, status, overrides
Classify ==
    /\ pc = "classify"
    /\ LET confidence == calculate_confidence(smtp_result, catch_all, mx_check,
                                              deliverability,
                                              call.confidence_mode)
       IN  /\ fusion' = confidence
           /\ result' = ApplyOverride(
                            DetermineStatus(smtp_result, catch_all, mx_check,
                                            deliverability, confidence),
                            call.domain, overrides)
    /\ pc' = "done"
    /\ UNCHANGED <<mx_cache, deliverability_cache, config, dns_answer, now,
                   resolver_calls, call, mx_check,
                   smtp_result, deliverability, catch_all, internet_check, io>>
    /\ UNCHANGED <<probeVars, raceVars, finderVars, job>>

Next ==
    \/ \E email \in Emails, fast_mode \in BOOLEAN, confidence_mode \in Modes,
          internet_checks \in BOOLEAN :
            Call(email, fast_mode, confidence_mode, internet_checks)
    \/ MxCheck
    \/ SmtpProbe
    \/ Deliverability
    \/ CatchAll
    \/ InternetCheck
    \/ Classify

Spec == Init /\ [][Next]_vars

-----------------------------------------------------------------------------
(* verify_email on a verifier as an operator may configure it: entries in  *)
(* DOMAIN_CONFIDENCE_OVERRIDES, ENABLE_INTERNET_CHECKS set or cleared      *)

\* tables an operator may configure (line 30), the shipped one among them:
\* a floor, a forced status, both, and an entry for another domain
OverrideTables ==
    { DefaultOverrides,
      [d \in {"corp.io"} |-> Override(TRUE, 90 * 100, FALSE, None)],
      [d \in {"corp.io"} |-> Override(FALSE, 0, TRUE, "valid")],
      [d \in {"corp.io", "gmail.com"} |->
          IF d = "corp.io" THEN Override(TRUE, 50 * 100, TRUE, "internal")
          ELSE Override(TRUE, 90 * 100, FALSE, None)] }

ConfigInit ==
    /\ mx_cache = [d \in {} |-> 0]
    /\ deliverability_cache = [d \in {} |-> 0]
    /\ overrides \in OverrideTables
    /\ enable_internet_checks \in BOOLEAN
    /\ now = 0
    /\ resolver_calls = [d \in {} |-> 0]
    /\ NoVerification /\ NoProbe /\ NoRace /\ NoFinder /\ NoJob

SpecConfig == ConfigInit /\ [][Next]_vars

-----------------------------------------------------------------------------
(* smtp_handshake, host by host *)

\* longest MX host list given to smtp_handshake
MaxHosts == 3

HostPool == {"mx1.corp.io", "MX2.corp.io", "smtp.sendgrid.net"}
ProbeDomains == {"corp.io", "Mail.Yahoo.com", "acme.com", "example.org"}

HostListsUpTo(n) == UNION {[1..k -> HostPool] : k \in 0..n}

ProbeInit ==
    /\ InitVerifier
    /\ NoVerification
    /\ hpc = "start"
    /\ \E domain \in ProbeDomains, mx_hosts \in HostListsUpTo(MaxHosts) :
         hargs = [email |-> "bob@" \o domain, domain |-> domain,
                  mx_hosts |-> mx_hosts]
    /\ hres = NewResult
    /\ hidx = 1
    /\ hlog = <<>>
    /\ NoRace
    /\ NoFinder
    /\ NoJob

\* lines 268-302: the skip rules
ProbeStart ==
    /\ hpc = "start"
    /\ LET skip == SkipRules(hargs.domain, hargs.mx_hosts)
       IN  /\ hres' = skip
           /\ hpc' = IF skip.skipped THEN "returned" ELSE "loop"
    /\ UNCHANGED <<hargs, hidx, hlog>>
    /\ UNCHANGED <<verifyVars, raceVars, finderVars, job>>

\* one iteration of the host loop (lines 304-374)
ProbeHost ==
    /\ hpc = "loop"
    /\ hidx <= Len(FirstTwo(hargs.mx_hosts))
    /\ \E reply \in Replies :
         LET s == HostStep(hres, FirstTwo(hargs.mx_hosts)[hidx], reply)
         IN  /\ hres' = s.res
             /\ hlog' = Append(hlog, s.entry)
             /\ hpc' = IF s.decision = "continue" THEN "loop" ELSE "returned"
    /\ hidx' = hidx + 1
    /\ UNCHANGED hargs
    /\ UNCHANGED <<verifyVars, raceVars, finderVars, job>>

\* lines 376-380: the loop ended without a return
ProbeExhausted ==
    /\ hpc = "loop"
    /\ hidx > Len(FirstTwo(hargs.mx_hosts))
    /\ hres' = AllHostsFailed(hres)
    /\ hpc' = "returned"
    /\ UNCHANGED <<hargs, hidx, hlog>>
    /\ UNCHANGED <<verifyVars, raceVars, finderVars, job>>

ProbeNext == ProbeStart \/ ProbeHost \/ ProbeExhausted

SpecProbe == ProbeInit /\ [][ProbeNext]_vars

-----------------------------------------------------------------------------
(* Sequential verify_email calls on one EmailVerifier, seen from the MX     *)
(* cache.  Each call runs lines 81-113 as in Spec; the stages after the MX  *)
(* check (lines 115-202) touch neither _mx_cache nor the resolver and are   *)
(* taken in one step, at which the locals of the call go out of scope.      *)

\* number of TTL periods the clock runs through
MaxPeriods == 2

\* the instants at which the clock is read: the second before, the second
\* of, and the second after each multiple of the TTL
Instants ==
    {t \in UNION {{k * cache_ttl - 1, k * cache_ttl, k * cache_ttl + 1} :
                     k \in 0..MaxPeriods} : t >= 0}

\* time passes between two calls
Elapse ==
    /\ pc = "idle"
    /\ \E t \in Instants : t > now /\ now' = t
    /\ UNCHANGED <<mx_cache, deliverability_cache, config, dns_answer,
                   resolver_calls, pc, call, mx_check, smtp_result, deliverability, catch_all,
                   internet_check, fusion, result, io>>
    /\ UNCHANGED <<probeVars, raceVars, finderVars, job>>

\* the call returns (line 88, line 113 or line 202)
ReturnResult ==
    /\ pc \in {"smtp", "done"}
    /\ pc' = "idle"
    /\ call' = NoCall
    /\ mx_check' = NoMx
    /\ result' = NewVerification
    /\ io' = NoIo
    /\ dns_answer' = NotAsked
    /\ UNCHANGED <<mx_cache, deliverability_cache, config, now,
                   resolver_calls, smtp_result, deliverability, catch_all,
                   internet_check, fusion>>
    /\ UNCHANGED <<probeVars, raceVars, finderVars, job>>

CacheNext ==
    \/ \E email \in Emails : Call(email, TRUE, "balanced", FALSE)
    \/ MxCheck
    \/ ReturnResult
    \/ Elapse

SpecCache == Init /\ [][CacheNext]_vars

-----------------------------------------------------------------------------
(* Threads calling _get_cached and _set_cache on one key of _mx_cache,     *)
(* statement by statement.  `with self._cache_lock` is entered at the      *)
(* first step of a call and left at its last.                              *)

\* calls each thread makes
MaxOps == 2

Threads == {"t1", "t2"}

\* the key the threads share
RaceKey == "corp.io"

\* the records the writers store
RaceValues ==
    { check_mx_records(RaceKey, DnsAnswer("noanswer", <<>>, TRUE)),
      check_mx_records(RaceKey, DnsAnswer("nxdomain", <<>>, FALSE)) }

\* cache.get(key) that found nothing
Absent == [present |-> FALSE]

\* a thread outside the cache: entry and tested_at are the locals of its
\* last _get_cached, ret what that call returned, popped the entry its
\* cache.pop removed, stored the entries its _set_cache calls assigned
IdleThread ==
    [pc |-> "idle", ops |-> 0, value |-> None, entry |-> Absent,
     tested_at |-> 0, ret |-> [hit |-> FALSE], popped |-> Absent,
     stored |-> {}]

\* a cache without the lock
CanEnter_Unlocked(t) == TRUE

\* with self._cache_lock: the lock is free
CanEnter(t) == cache_lock = None

RaceInit ==
    /\ InitVerifier
    /\ NoVerification
    /\ NoProbe
    /\ NoFinder
    /\ NoJob
    /\ cache_lock = None
    /\ threads = [t \in Threads |-> IdleThread]

\* line 57: _get_cached enters the lock
GetEnter(t) ==
    /\ threads[t].pc = "idle"
    /\ threads[t].ops < MaxOps
    /\ CanEnter(t)
    /\ cache_lock' = t
    /\ threads' = [threads EXCEPT ![t].pc = "get_read", ![t].ops = @ + 1,
                                  ![t].entry = Absent,
                                  ![t].ret = [hit |-> FALSE],
                                  ![t].popped = Absent]
    /\ UNCHANGED <<verifyVars, probeVars, finderVars, job>>

\* line 58: entry = cache.get(key)
GetRead(t) ==
    /\ threads[t].pc = "get_read"
    /\ threads' = [threads EXCEPT
                     ![t].pc = "get_test",
                     ![t].entry =
                        IF RaceKey \in DOMAIN mx_cache
                        THEN [present |-> TRUE,
                              value |-> mx_cache[RaceKey].value,
                              expires_at |-> mx_cache[RaceKey].expires_at]
                        ELSE Absent]
    /\ UNCHANGED <<cache_lock, verifyVars, probeVars, finderVars, job>>

\* lines 59-62: return None, return the value, or go on to evict
GetTest(t) ==
    /\ threads[t].pc = "get_test"
    /\ LET entry == threads[t].entry
       IN  IF ~entry.present
           THEN /\ threads' = [threads EXCEPT ![t].pc = "idle"]
                /\ cache_lock' = None
           ELSE IF entry.expires_at > now
           THEN /\ threads' = [threads EXCEPT
                                 ![t].pc = "idle", ![t].tested_at = now,
                                 ![t].ret = [hit |-> TRUE,
                                             value |-> entry.value]]
                /\ cache_lock' = None
           ELSE /\ threads' = [threads EXCEPT ![t].pc = "get_pop",
                                              ![t].tested_at = now]
                /\ cache_lock' = cache_lock
    /\ UNCHANGED <<verifyVars, probeVars, finderVars, job>>

\* lines 63-64: cache.pop(key, None); return None
GetPop(t) ==
    /\ threads[t].pc = "get_pop"
    /\ mx_cache' = [k \in (DOMAIN mx_cache) \ {RaceKey} |-> mx_cache[k]]
    /\ threads' = [threads EXCEPT
                     ![t].pc = "idle",
                     ![t].popped =
                        IF RaceKey \in DOMAIN mx_cache
                        THEN [present |-> TRUE,
                              value |-> mx_cache[RaceKey].value,
                              expires_at |-> mx_cache[RaceKey].expires_at]
                        ELSE Absent]
    /\ cache_lock' = None
    /\ UNCHANGED <<deliverability_cache, config, dns_answer, now,
                   resolver_calls, pc,
                   call, mx_check, smtp_result, deliverability, catch_all,
                   internet_check, fusion, result, io>>
    /\ UNCHANGED <<probeVars, finderVars, job>>

\* line 67: _set_cache enters the lock
SetEnter(t, value) ==
    /\ threads[t].pc = "idle"
    /\ threads[t].ops < MaxOps
    /\ CanEnter(t)
    /\ cache_lock' = t
    /\ threads' = [threads EXCEPT ![t].pc = "set_store", ![t].ops = @ + 1,
                                  ![t].value = value]
    /\ UNCHANGED <<verifyVars, probeVars, finderVars, job>>

\* line 68: cache[key] = {"value": ..., "expires_at": ...}
SetStore(t) ==
    /\ threads[t].pc = "set_store"
    /\ mx_cache' = set_cache(mx_cache, RaceKey, threads[t].value, now)
    /\ threads' = [threads EXCEPT
                     ![t].pc = "idle",
                     ![t].stored = @ \cup
                        {[present |-> TRUE, value |-> threads[t].value,
                          expires_at |-> now + cache_ttl]}]
    /\ cache_lock' = None
    /\ UNCHANGED <<deliverability_cache, config, dns_answer, now,
                   resolver_calls, pc,
                   call, mx_check, smtp_result, deliverability, catch_all,
                   internet_check, fusion, result, io>>
    /\ UNCHANGED <<probeVars, finderVars, job>>

RaceNext ==
    \/ \E t \in Threads : GetEnter(t)
    \/ \E t \in Threads : GetRead(t)
    \/ \E t \in Threads : GetTest(t)
    \/ \E t \in Threads : GetPop(t)
    \/ \E t \in Threads, value \in RaceValues : SetEnter(t, value)
    \/ \E t \in Threads : SetStore(t)
    \/ Elapse

SpecRace == RaceInit /\ [][RaceNext]_vars

-----------------------------------------------------------------------------
(* email_verifier.py: the cached stages of concurrent verify_email calls *)

\* the two stages of verify_email that go through a cache
CachedStages == {"mx", "deliverability"}

\* what a lookup may return: check_mx_records, check_deliverability
LookupValues(stage) ==
    IF stage = "mx" THEN RaceValues
    ELSE { check_deliverability(TRUE, FALSE, TRUE),
           check_deliverability(FALSE, FALSE, FALSE) }

\* the stage has not read its cache, has made no lookup
NotYet == [done |-> FALSE]

\* A worker thread in verify_email for an address at RaceKey: the stage it
\* is in, its step there (get, lookup, set), the record it holds, and per
\* stage whether its cache read met an unexpired entry and when its lookup
\* was made.
NewWorker ==
    [stage |-> "mx", step |-> "get", value |-> None,
     read |-> [s \in CachedStages |-> NotYet],
     looked |-> [s \in CachedStages |-> NotYet]]

\* the cache of a stage
CacheOf(stage) ==
    IF stage = "mx" THEN mx_cache ELSE deliverability_cache

\* a call that looks up whatever the cache returned
NeedsLookup_Always(got) == TRUE

\* lines 103 and 120: if mx_check is None / if deliverability is None
NeedsLookup(got) == ~got.hit

\* where the call goes once the stage has its record: line 109 returns on
\* an invalid MX record, the deliverability stage is the last cached one
StageAfter(stage, value) ==
    IF stage = "mx" /\ ~MxInvalid(value) THEN "deliverability"
    ELSE "returned"

WorkersInit ==
    /\ InitVerifier
    /\ NoVerification
    /\ NoProbe
    /\ NoFinder
    /\ NoJob
    /\ cache_lock = None
    /\ threads = [t \in Threads |-> NewWorker]

\* lines 102 and 119: _get_cached, as one step (the lock is held throughout)
WorkerGet(t) ==
    /\ threads[t].stage \in CachedStages
    /\ threads[t].step = "get"
    /\ LET stage == threads[t].stage
           cache == CacheOf(stage)
           got == get_cached(cache, RaceKey, now)
           fresh == /\ RaceKey \in DOMAIN cache
                    /\ cache[RaceKey].expires_at > now
           lookup == NeedsLookup(got)
       IN  /\ mx_cache' = IF stage = "mx" THEN got.cache ELSE mx_cache
           /\ deliverability_cache' =
                 IF stage = "mx" THEN deliverability_cache ELSE got.cache
           /\ threads' =
                 [threads EXCEPT
                    ![t].read[stage] =
                        [done |-> TRUE, fresh |-> fresh],
                    ![t].value = IF got.hit THEN got.value ELSE None,
                    ![t].step = IF lookup THEN "lookup" ELSE "get",
                    ![t].stage = IF lookup THEN stage
                                 ELSE StageAfter(stage, got.value)]
    /\ UNCHANGED <<config, dns_answer, now, resolver_calls, pc, call,
                   mx_check, smtp_result, deliverability, catch_all,
                   internet_check, fusion, result, io, cache_lock>>
    /\ UNCHANGED <<probeVars, finderVars, job>>

\* lines 104 and 121: check_mx_records / check_deliverability, outside the
\* lock
WorkerLookup(t) ==
    /\ threads[t].stage \in CachedStages
    /\ threads[t].step = "lookup"
    /\ LET stage == threads[t].stage
       IN  /\ \E value \in LookupValues(stage) :
                threads' = [threads EXCEPT
                              ![t].value = value,
                              ![t].looked[stage] = [done |-> TRUE, at |-> now],
                              ![t].step = "set"]
           /\ resolver_calls' =
                 IF stage = "mx" THEN Resolved(resolver_calls, RaceKey, now)
                 ELSE resolver_calls
    /\ UNCHANGED <<mx_cache, deliverability_cache, config, dns_answer, now,
                   pc, call, mx_check, smtp_result, deliverability,
                   catch_all, internet_check, fusion, result, io,
                   cache_lock>>
    /\ UNCHANGED <<probeVars, finderVars, job>>

\* lines 105 and 122: _set_cache, as one step
WorkerSet(t) ==
    /\ threads[t].stage \in CachedStages
    /\ threads[t].step = "set"
    /\ LET stage == threads[t].stage
           stored == set_cache(CacheOf(stage), RaceKey, threads[t].value, now)
       IN  /\ mx_cache' = IF stage = "mx" THEN stored ELSE mx_cache
           /\ deliverability_cache' =
                 IF stage = "mx" THEN deliverability_cache ELSE stored
           /\ threads' =
                 [threads EXCEPT
                    ![t].step = "get",
                    ![t].stage = StageAfter(stage, threads[t].value)]
    /\ UNCHANGED <<config, dns_answer, now, resolver_calls, pc, call,
                   mx_check, smtp_result, deliverability, catch_all,
                   internet_check, fusion, result, io, cache_lock>>
    /\ UNCHANGED <<probeVars, finderVars, job>>

\* the instants at which the workers read the clock: the start, the last
\* second of the first TTL window and the first second after it
WorkerInstants == {0, cache_ttl - 1, cache_ttl}

\* time passes while the workers run
WorkerElapse ==
    /\ \E t \in WorkerInstants : t > now /\ now' = t
    /\ UNCHANGED <<mx_cache, deliverability_cache, config, dns_answer,
                   resolver_calls, pc, call, mx_check, smtp_result,
                   deliverability, catch_all, internet_check, fusion, result,
                   io>>
    /\ UNCHANGED <<probeVars, raceVars, finderVars, job>>

WorkersNext ==
    \/ \E t \in Threads : WorkerGet(t)
    \/ \E t \in Threads : WorkerLookup(t)
    \/ \E t \in Threads : WorkerSet(t)
    \/ WorkerElapse

SpecWorkers == WorkersInit /\ [][WorkersNext]_vars

-----------------------------------------------------------------------------
(* email_finder.py: generate_patterns *)

Whitespace == {" ", "\t", "\n"}

RECURSIVE LStrip(_)
LStrip(s) ==
    IF Len(s) > 0 /\ SubSeq(s, 1, 1) \in Whitespace
    THEN LStrip(SubSeq(s, 2, Len(s))) ELSE s

RECURSIVE RStrip(_)
RStrip(s) ==
    IF Len(s) > 0 /\ SubSeq(s, Len(s), Len(s)) \in Whitespace
    THEN RStrip(SubSeq(s, 1, Len(s) - 1)) ELSE s

\* Python: s.strip()
Strip(s) == RStrip(LStrip(s))

RECURSIVE RStripAt(_)
\* Python: s.rstrip("@")
RStripAt(s) ==
    IF Len(s) > 0 /\ SubSeq(s, Len(s), Len(s)) = "@"
    THEN RStripAt(SubSeq(s, 1, Len(s) - 1)) ELSE s

\* Python: s[:n]
Prefix(s, n) == SubSeq(s, 1, Min(n, Len(s)))

\* Python: s[i] for a 0-based index i that exists, s[-1] for i = -1
CharAt(s, i) == IF i < 0 THEN SubSeq(s, Len(s), Len(s)) ELSE SubSeq(s, i + 1, i + 1)

DEFAULT_PATTERN_TEMPLATES ==
    << "{first}.{last}", "{first}_{last}", "{first}-{last}", "{first}{last}",
       "{first}{l}", "{f}{last}", "{f}.{last}", "{first}.{l}",
       "{last}.{first}", "{last}_{first}", "{last}{first}", "{f}{l}{last}",
       "{first}{last}{f}", "{first}{last}{l}", "{last}{first}{l}",
       "{f}{last}{digits2}", "{first}{last}{digits2}", "{f}{l}{digits2}" >>

NUMERIC_SUFFIXES == << "1", "12", "99", "01", "001", "123" >>
SEPARATORS == << "", ".", "_", "-" >>

\* the dict `tokens` (lines 73-84)
Tokens(first, last, domain_lower) ==
    [first |-> first, last |-> last,
     f |-> Prefix(first, 1), l |-> Prefix(last, 1),
     fi |-> Prefix(first, 2), li |-> Prefix(last, 2),
     first3 |-> Prefix(first, 3), last3 |-> Prefix(last, 3),
     domain |-> domain_lower, digits2 |-> "12"]

Digits == {"0", "1", "2", "3", "4", "5", "6", "7", "8", "9"}

\* index of the first occurrence of character c in s at or after i, 0 if none
IndexFrom(s, c, i) ==
    IF \E j \in i..Len(s) : SubSeq(s, j, j) = c
    THEN CHOOSE j \in i..Len(s) :
            /\ SubSeq(s, j, j) = c
            /\ \A k \in i..(j - 1) : SubSeq(s, k, k) # c
    ELSE 0

RECURSIVE FormatFrom(_, _, _)
\* Python: template.format(**tokens) from position i on, for templates whose
\* replacement fields are plain names: the text, or the exception raised
\* (KeyError for a name that is no token, IndexError for an empty or
\* numeric name, ValueError for an unmatched brace).
FormatFrom(template, i, tokens) ==
    IF i > Len(template) THEN [error |-> "none", text |-> ""]
    ELSE LET c == SubSeq(template, i, i)
             next == SubSeq(template, i + 1, Min(i + 1, Len(template)))
             literal(n) ==
                LET rest == FormatFrom(template, i + n, tokens)
                IN  [error |-> rest.error, text |-> c \o rest.text]
         IN  IF c = "{"
             THEN IF next = "{" THEN literal(2)
                  ELSE LET j == IndexFrom(template, "}", i + 1)
                           name == SubSeq(template, i + 1, j - 1)
                       IN  IF j = 0 \/ Contains(name, "{")
                           THEN [error |-> "ValueError", text |-> ""]
                           ELSE IF name = "" \/ SubSeq(name, 1, 1) \in Digits
                           THEN [error |-> "IndexError", text |-> ""]
                           ELSE IF name \notin DOMAIN tokens
                           THEN [error |-> "KeyError", text |-> ""]
                           ELSE LET rest == FormatFrom(template, j + 1, tokens)
                                IN  [error |-> rest.error,
                                     text |-> tokens[name] \o rest.text]
             ELSE IF c = "}"
             THEN IF next = "}" THEN literal(2)
                  ELSE [error |-> "ValueError", text |-> ""]
             ELSE literal(1)

Format(template, tokens) == FormatFrom(template, 1, tokens)

\* an add() that appends no domain
Address_Bare(pattern, domain_lower) == pattern

\* the email the closure add() makes of a pattern (line 68)
Address(pattern, domain_lower) ==
    IF Contains(pattern, "@") THEN pattern ELSE pattern \o "@" \o domain_lower

\* Python: x in list
InSeq(x, seq) == \E k \in 1..Len(seq) : seq[k] = x

\* a sequence as a tuple: its elements are computed once, here
Tuple(seq) == seq \o <<>>

\* the subsequence of seq at the indices in keep
Keep(seq, keep) ==
    LET position == Tuple([k \in 1..Len(seq) |->
                              Cardinality({j \in keep : j <= k})])
    IN  Tuple([i \in 1..Cardinality(keep) |->
                  seq[CHOOSE k \in keep : position[k] = i]])

\* The list the calls add(raw[1]), add(raw[2]), ... build (lines 62-71): an
\* empty pattern adds nothing, and an email is appended unless an earlier
\* call appended it (the set `seen`).
AddAll(raw, domain_lower) ==
    LET emails == Tuple([k \in 1..Len(raw) |->
                            IF raw[k] = "" THEN ""
                            ELSE Address(raw[k], domain_lower)])
        appended == {k \in 1..Len(raw) :
                        /\ emails[k] # ""
                        /\ \A j \in 1..(k - 1) : emails[j] # emails[k]}
    IN  Keep(emails, appended)

\* What one pass of a template loop hands to add() (lines 87-91 and
\* 127-134): the formatted text, or "" when the template is dropped (a
\* KeyError, or a custom template that is blank once stripped).
Rendered(templates, tokens, custom) ==
    [k \in 1..Len(templates) |->
        LET template == IF custom THEN Strip(templates[k]) ELSE templates[k]
            text == Format(template, tokens)
        IN  IF text.error = "none" /\ template # "" THEN text.text ELSE ""]

\* str.format raises something other than KeyError for a custom template:
\* the exception leaves generate_patterns
FormatRaises(templates, tokens) ==
    \E k \in 1..Len(templates) :
        /\ Strip(templates[k]) # ""
        /\ Format(Strip(templates[k]), tokens).error \notin {"none", "KeyError"}

\* base_tokens (lines 93-102)
BaseTokens(first, last) ==
    << first \o "." \o last, first \o last, first \o "_" \o last,
       first \o "-" \o last, first \o Prefix(last, 1),
       Prefix(first, 1) \o last, last \o first, last \o "." \o first >>

\* the patterns of the suffix sweep (lines 103-105), in order
SuffixSweep(first, last) ==
    LET base_tokens == BaseTokens(first, last)
        n == Len(NUMERIC_SUFFIXES)
    IN  [k \in 1..(Len(base_tokens) * n) |->
            base_tokens[((k - 1) \div n) + 1]
                \o NUMERIC_SUFFIXES[((k - 1) % n) + 1]]

\* the five patterns of one separator (lines 108-112)
SeparatorPatterns(first, last, sep, tokens) ==
    << first \o sep \o last,
       Prefix(first, 1) \o sep \o last,
       first \o sep \o Prefix(last, 1),
       first \o sep \o last \o tokens.f,
       first \o sep \o last \o tokens.l >>

\* the patterns of the separator sweep (lines 107-112), in order
SeparatorSweep(first, last, tokens) ==
    [k \in 1..(Len(SEPARATORS) * 5) |->
        SeparatorPatterns(first, last, SEPARATORS[((k - 1) \div 5) + 1],
                          tokens)[((k - 1) % 5) + 1]]

\* lines 114-124
ExtraPatterns(first, last, tokens) ==
    << last \o first \o "1",
       last \o first \o "123",
       tokens.f \o last \o tokens.l,
       tokens.f \o last \o CharAt(first, -1),
       first \o tokens.l \o CharAt(last, -1),
       tokens.f \o last \o "1" >>
    \o IF Len(first) > 1 /\ Len(last) > 1
       THEN << tokens.f \o CharAt(first, 1) \o last,
               first \o Prefix(last, 2),
               Prefix(first, 2) \o last >>
       ELSE <<>>

\* generate_patterns: the list returned, or raised = TRUE when an exception
\* leaves the function.  custom_patterns is a sequence, empty for None.
generate_patterns(first_name, last_name, domain, custom_patterns, include_defaults) ==
    LET first == Strip(Lower(first_name))
        last == Strip(Lower(last_name))
        domain_lower == RStripAt(Strip(Lower(domain)))
        tokens == Tokens(first, last, domain_lower)
        empty == [raised |-> FALSE, patterns |-> <<>>]
    IN  IF first = "" \/ last = "" \/ domain_lower = "" THEN empty
        ELSE IF FormatRaises(custom_patterns, tokens)
        THEN [raised |-> TRUE, patterns |-> <<>>]
        ELSE [raised |-> FALSE,
              patterns |->
                AddAll((IF include_defaults
                        THEN Rendered(DEFAULT_PATTERN_TEMPLATES, tokens, FALSE)
                        ELSE <<>>)
                           \o SuffixSweep(first, last)
                           \o SeparatorSweep(first, last, tokens)
                           \o ExtraPatterns(first, last, tokens)
                           \o Rendered(custom_patterns, tokens, TRUE),
                       domain_lower)]

-----------------------------------------------------------------------------
(* email_finder.py: find_best_emails, candidate by candidate *)

\* largest max_results and max_patterns given to find_best_emails
MaxResults == 2
MaxPatterns == 3

FirstNames == {"Ann", " ann", "A", "a@b", " "}
LastNames == {"Lee", ""}
FinderDomains == {"Corp.io", "corp.io@", "@corp.io", "@"}

\* custom_patterns arguments; <<>> stands for None and for the empty list
CustomLists ==
    { <<>>,
      << "{first}" >>,
      << "{first}@other.org", "{nick}" >>,
      << "{nick}", " Sales ", "{first}.{l}" >>,
      << "{First}", "{f}{last" >>,
      << "{first}", "{0}.{last}", "{last}" >> }

\* generate_patterns on the arguments above
Generated ==
    [first_name \in FirstNames, last_name \in LastNames,
     domain \in FinderDomains, custom_patterns \in CustomLists,
     include_defaults \in BOOLEAN |->
        generate_patterns(first_name, last_name, domain, custom_patterns,
                          include_defaults)]

\* what verify_email does for one candidate: it raises, or returns a status
\* and a confidence
Verification(raised, status, confidence) ==
    [raised |-> raised, status |-> status, confidence |-> confidence]

VerifyOutcomes ==
    { Verification(TRUE, None, 0),
      Verification(FALSE, "valid", 90 * 100),
      Verification(FALSE, "catch-all", 80 * 100),
      Verification(FALSE, "catch-all", 70 * 100),
      Verification(FALSE, "likely_valid", 75 * 100),
      Verification(FALSE, "unknown", 25 * 100),
      Verification(FALSE, "invalid", 0) }

\* line 205
CollectedStatuses == {"valid", "catch-all", "likely_valid"}

\* line 218: 0.8
EARLY_STOP_CONFIDENCE == 8000

\* priority_patterns (lines 172-178)
PriorityPatterns(first_name, last_name, domain) ==
    LET first == Lower(first_name)
        last == Lower(last_name)
        at == "@" \o Lower(domain)
        initial == Lower(CharAt(first_name, 0))
    IN  << first \o "." \o last \o at,
           first \o last \o at,
           first \o at,
           initial \o "." \o last \o at,
           initial \o last \o at >>

\* a prioritisation that keeps the generation order
Prioritize_GenerationOrder(priority_patterns, candidates) == candidates

\* ordered_patterns (lines 180-188)
Prioritize(priority_patterns, candidates) ==
    LET front == Keep(priority_patterns,
                      {k \in 1..Len(priority_patterns) :
                          /\ InSeq(priority_patterns[k], candidates)
                          /\ \A j \in 1..(k - 1) :
                                priority_patterns[j] # priority_patterns[k]})
    IN  front \o Keep(candidates,
                      {k \in 1..Len(candidates) :
                          ~InSeq(candidates[k], front)})

\* a loop over every candidate
ProbeCap_Uncapped(max_patterns, n) == n

\* line 190: max(1, min(max_patterns, len(ordered_patterns)))
ProbeCap(max_patterns, n) == Max(1, Min(max_patterns, n))

\* Python: seq[:n]
SliceTo(seq, n) ==
    IF n >= 0 THEN SubSeq(seq, 1, Min(n, Len(seq)))
    ELSE SubSeq(seq, 1, Max(0, Len(seq) + n))

\* patterns_to_check (line 191)
PatternsToCheck ==
    SliceTo(ordered_patterns,
            ProbeCap(fargs.max_patterns, Len(ordered_patterns)))

RECURSIVE InsertByConfidence(_, _)
\* insertion behind the entries of higher or equal confidence
InsertByConfidence(sorted, r) ==
    IF sorted = <<>> THEN <<r>>
    ELSE IF r.confidence > Head(sorted).confidence THEN <<r>> \o sorted
    ELSE <<Head(sorted)>> \o InsertByConfidence(Tail(sorted), r)

\* a list left in probing order
SortByConfidence_Unsorted(rs) == rs

RECURSIVE SortByConfidence(_)
\* results.sort(key=lambda x: x["confidence"], reverse=True), stable
SortByConfidence(rs) ==
    IF rs = <<>> THEN <<>>
    ELSE InsertByConfidence(SortByConfidence(SubSeq(rs, 1, Len(rs) - 1)),
                            rs[Len(rs)])

\* a stop rule that looks at the confidence alone
StopsEarly_ConfidenceOnly(confidence, collected, max_results) ==
    confidence >= EARLY_STOP_CONFIDENCE

\* a stop rule with a threshold of 0.75
StopsEarly_LowThreshold(confidence, collected, max_results) ==
    confidence >= 75 * 100 /\ collected >= max_results

\* line 218
StopsEarly(confidence, collected, max_results) ==
    confidence >= EARLY_STOP_CONFIDENCE /\ collected >= max_results

\* a search that goes on without candidates
NoCandidates_Never(candidates) == FALSE

\* line 169: if not patterns
NoCandidates(candidates) == candidates = <<>>

FinderInit ==
    /\ InitVerifier
    /\ NoVerification
    /\ NoProbe
    /\ NoRace
    /\ NoJob
    /\ fpc = "start"
    /\ fargs \in [first_name : FirstNames, last_name : LastNames,
                  domain : FinderDomains, custom_patterns : CustomLists,
                  include_defaults : BOOLEAN,
                  max_results : (-1)..MaxResults,
                  max_patterns : (-1)..MaxPatterns]
    /\ patterns = <<>>
    /\ ordered_patterns = <<>>
    /\ findex = 1
    /\ results = <<>>
    /\ returned = <<>>
    /\ verified = <<>>
    /\ best = NoBest

\* lines 160-170: generate the candidates; return [] when there are none
FindStart ==
    /\ fpc = "start"
    /\ LET g == Generated[fargs.first_name, fargs.last_name, fargs.domain,
                          fargs.custom_patterns, fargs.include_defaults]
       IN  /\ patterns' = g.patterns
           /\ fpc' = IF g.raised THEN "raised"
                     ELSE IF NoCandidates(g.patterns) THEN "returned"
                     ELSE "prioritize"
    /\ UNCHANGED <<fargs, ordered_patterns, findex, results, returned,
                   verified, best>>
    /\ UNCHANGED <<verifyVars, probeVars, raceVars, job>>

\* lines 172-194: prioritise and cap
FindPrioritize ==
    /\ fpc = "prioritize"
    /\ ordered_patterns' =
          Prioritize(PriorityPatterns(fargs.first_name, fargs.last_name,
                                      fargs.domain),
                     patterns)
    /\ fpc' = "loop"
    /\ UNCHANGED <<fargs, patterns, findex, results, returned, verified,
                   best>>
    /\ UNCHANGED <<verifyVars, probeVars, raceVars, job>>

\* a loop that ends at the first verification that raises
OnVerifyError_Break == "sort"

\* lines 221-223: except Exception ... continue
OnVerifyError == "loop"

\* one iteration of the loop of lines 195-223
FindProbe ==
    /\ fpc = "loop"
    /\ findex <= Len(PatternsToCheck)
    /\ \E verification \in VerifyOutcomes :
         LET email == PatternsToCheck[findex]
             collect == /\ ~verification.raised
                        /\ verification.status \in CollectedStatuses
             collected ==
                IF collect
                THEN Append(results,
                            [email |-> email,
                             status |-> verification.status,
                             confidence |-> verification.confidence])
                ELSE results
         IN  /\ verified' = Append(verified,
                                   [email |-> email,
                                    verification |-> verification])
             /\ results' = collected
             /\ IF verification.raised
                THEN fpc' = OnVerifyError /\ findex' = findex + 1
                ELSE IF collect /\ StopsEarly(verification.confidence,
                                              Len(collected),
                                              fargs.max_results)
                THEN fpc' = "sort" /\ findex' = findex
                ELSE fpc' = "loop" /\ findex' = findex + 1
    /\ UNCHANGED <<fargs, patterns, ordered_patterns, returned, best>>
    /\ UNCHANGED <<verifyVars, probeVars, raceVars, job>>

\* the loop ran through patterns_to_check
FindExhausted ==
    /\ fpc = "loop"
    /\ findex > Len(PatternsToCheck)
    /\ fpc' = "sort"
    /\ UNCHANGED <<fargs, patterns, ordered_patterns, findex, results,
                   returned, verified, best>>
    /\ UNCHANGED <<verifyVars, probeVars, raceVars, job>>

\* lines 225-228: sort by confidence, return the first max_results
FindReturn ==
    /\ fpc = "sort"
    /\ returned' = SliceTo(SortByConfidence(results), fargs.max_results)
    /\ fpc' = "returned"
    /\ UNCHANGED <<fargs, patterns, ordered_patterns, findex, results,
                   verified, best>>
    /\ UNCHANGED <<verifyVars, probeVars, raceVars, job>>

\* find_best_email, line 256: results[0] if results else None
find_best_email(rs) ==
    [returned |-> TRUE, value |-> IF rs # <<>> THEN <<rs[1]>> ELSE <<>>]

\* find_best_email (lines 245-256) after its find_best_emails call, which it
\* makes with max_results = 1, has returned
FindBest ==
    /\ fpc = "returned"
    /\ fargs.max_results = 1
    /\ best = NoBest
    /\ best' = find_best_email(returned)
    /\ UNCHANGED <<fpc, fargs, patterns, ordered_patterns, findex, results,
                   returned, verified>>
    /\ UNCHANGED <<verifyVars, probeVars, raceVars, job>>

FinderNext ==
    \/ FindStart
    \/ FindPrioritize
    \/ FindProbe
    \/ FindExhausted
    \/ FindReturn
    \/ FindBest

SpecFinder == FinderInit /\ [][FinderNext]_vars

-----------------------------------------------------------------------------
(* main.py: process_bulk_find_job and process_bulk_verify_job, row by row. *)
(* JobManager is a collaborator whose code is not at hand: it is taken to  *)
(* record what main.py tells it.                                           *)

\* most rows in an uploaded file
MaxRows == 3

\* cells that pandas reads as missing
NaValues == {"", "NaN"}

\* _normalize_cell (lines 329-332)
normalize_cell(value) == IF value \in NaValues THEN "" ELSE Strip(value)

\* rows of an uploaded file, by column; a column the file lacks reads ""
Row(first_name, last_name, domain, email) ==
    [first_name |-> first_name, last_name |-> last_name, domain |-> domain,
     email |-> email]

FindRows ==
    { Row("Ann", "Lee", "corp.io", ""),
      Row(" Bob ", "Ray", "corp.io", ""),
      Row("Ann", "NaN", "corp.io", ""),
      Row("Ann", "Lee", "  ", "") }

VerifyRows ==
    { Row("", "", "", "ann@corp.io"),
      Row("", "", "", " bob@corp.io "),
      Row("", "", "", "") }

\* the files of at most MaxRows rows
Files(rows) == UNION {[1..n -> rows] : n \in 0..MaxRows}

\* what find_best_emails(first, last, domain, max_results=1) does: it raises,
\* or returns a list of at most one result
FinderOutcomes(first, last, domain) ==
    { [raised |-> TRUE, reason |-> "finder failed", emails |-> <<>>],
      [raised |-> FALSE, reason |-> "", emails |-> <<>>],
      [raised |-> FALSE, reason |-> "",
       emails |-> << [email |-> Lower(first) \o "." \o Lower(last)
                                   \o "@" \o Lower(domain),
                      status |-> "valid", confidence |-> 90 * 100,
                      reason |-> "Email verified and deliverable"] >>] }

\* what verify_email(email) does: it raises, or returns a result
VerifierOutcomes(email) ==
    { [raised |-> TRUE, reason |-> "verifier failed",
       status |-> "", confidence |-> 0],
      [raised |-> FALSE, reason |-> "Email verified and deliverable",
       status |-> "valid", confidence |-> 90 * 100],
      [raised |-> FALSE, reason |-> "Domain has no valid MX records",
       status |-> "invalid", confidence |-> 0] }

\* a row of the output file
Record(first, last, domain, email, status, confidence, reason) ==
    [first_name |-> first, last_name |-> last, domain |-> domain,
     email |-> email, status |-> status, confidence |-> confidence,
     reason |-> reason]

\* JobManager.start_job, increment, complete_job, fail_job
start_job(j) == [j EXCEPT !.status = "processing"]
increment(j, success) == [j EXCEPT !.increments = Append(@, success)]
complete_job(j) == [j EXCEPT !.status = "completed"]
fail_job(j) == [j EXCEPT !.status = "failed"]

\* a job whose row failure reaches the handler of line 420
RowFailure_Fatal == "failed"

\* lines 408-417 and 475-482: the error is written to the row's record and
\* the loop goes on
RowFailure == "processing"

\* lines 357-417: one row of a find job; outcome is what find_best_emails
\* does when it is called
FindRow(j, row, outcome) ==
    LET first == normalize_cell(row.first_name)
        last == normalize_cell(row.last_name)
        domain == normalize_cell(row.domain)
        missing == first = "" \/ last = "" \/ domain = ""
        record ==
            IF missing
            THEN Record(first, last, domain, "", "missing_fields", 0,
                        "Required fields missing")
            ELSE IF outcome.raised
            THEN Record(first, last, domain, "", "error", 0, outcome.reason)
            ELSE IF outcome.emails # <<>>
            THEN Record(first, last, domain, outcome.emails[1].email,
                        outcome.emails[1].status,
                        outcome.emails[1].confidence,
                        outcome.emails[1].reason)
            ELSE Record(first, last, domain, "", "not_found", 0,
                        "No valid email found")
        success == ~missing /\ ~outcome.raised /\ outcome.emails # <<>>
        called == IF missing THEN j.calls
                  ELSE Append(j.calls, [row |-> j.index,
                                        raised |-> outcome.raised,
                                        reason |-> outcome.reason])
        written == [j EXCEPT !.output = Append(@, record), !.calls = called,
                             !.index = @ + 1]
    IN  [increment(written, success) EXCEPT
            !.status = IF ~missing /\ outcome.raised THEN RowFailure
                       ELSE "processing"]

\* lines 450-482: one row of a verify job
VerifyRow(j, row, outcome) ==
    LET email == normalize_cell(row.email)
        missing == email = ""
        record ==
            IF missing
            THEN Record("", "", "", "", "missing_email", 0,
                        "Email value missing")
            ELSE IF outcome.raised
            THEN Record("", "", "", email, "error", 0, outcome.reason)
            ELSE Record("", "", "", email, outcome.status,
                        outcome.confidence, outcome.reason)
        success == ~missing /\ ~outcome.raised
        called == IF missing THEN j.calls
                  ELSE Append(j.calls, [row |-> j.index,
                                        raised |-> outcome.raised,
                                        reason |-> outcome.reason])
        written == [j EXCEPT !.output = Append(@, record), !.calls = called,
                             !.index = @ + 1]
    IN  [increment(written, success) EXCEPT
            !.status = IF ~missing /\ outcome.raised THEN RowFailure
                       ELSE "processing"]

\* a job as create_job leaves it, its file uploaded
NewJob(mode, rows) ==
    [status |-> "queued", mode |-> mode, rows |-> rows, index |-> 1,
     output |-> <<>>, increments |-> <<>>, calls |-> <<>>]

BulkInit ==
    /\ InitVerifier /\ NoVerification /\ NoProbe /\ NoRace /\ NoFinder
    /\ \/ \E rows \in Files(FindRows) : job = NewJob("find", rows)
       \/ \E rows \in Files(VerifyRows) : job = NewJob("verify", rows)

\* lines 343-346 and 436-439: start_job, then read_csv, which raises on a
\* file it cannot parse (handler of lines 420-423)
BulkStart ==
    /\ job.status = "queued"
    /\ \E readable \in BOOLEAN :
         job' = IF readable THEN start_job(job) ELSE fail_job(start_job(job))
    /\ UNCHANGED <<verifyVars, probeVars, raceVars, finderVars>>

\* one iteration of the loop of lines 357-417 or 450-482
BulkRow ==
    /\ job.status = "processing"
    /\ job.index <= Len(job.rows)
    /\ LET row == job.rows[job.index]
       IN  IF job.mode = "find"
           THEN \E outcome \in FinderOutcomes(normalize_cell(row.first_name),
                                              normalize_cell(row.last_name),
                                              normalize_cell(row.domain)) :
                   job' = FindRow(job, row, outcome)
           ELSE \E outcome \in VerifierOutcomes(normalize_cell(row.email)) :
                   job' = VerifyRow(job, row, outcome)
    /\ UNCHANGED <<verifyVars, probeVars, raceVars, finderVars>>

\* lines 419 and 484: complete_job after the last row
BulkComplete ==
    /\ job.status = "processing"
    /\ job.index > Len(job.rows)
    /\ job' = complete_job(job)
    /\ UNCHANGED <<verifyVars, probeVars, raceVars, finderVars>>

BulkNext == BulkStart \/ BulkRow \/ BulkComplete

SpecBulk == BulkInit /\ [][BulkNext]_vars

-----------------------------------------------------------------------------
(* Properties of verify_email (Spec) *)

\* the call got past the MX stage
MxStageDone == call.domain # "" /\ pc \notin {"idle", "mx"}

\* the call went through confidence fusion and status classification
Classified == pc = "done" /\ mx_check.valid

\* the probe of the address ended without accept, reject or skip
Inconclusive ==
    ~smtp_result.skipped /\ ~smtp_result.accepted /\ ~smtp_result.rejected

\* C1: when the MX record of the domain has valid = false, the call ends
\* there with status invalid and confidence 0.0, and has made no SMTP probe,
\* no deliverability lookup, no catch-all probe and no reputation lookup.
C1_MxInvalidIsTerminal ==
    (MxStageDone /\ ~mx_check.valid) =>
        /\ pc = "done"
        /\ result.status = "invalid"
        /\ result.confidence = 0
        /\ io.smtp_calls = 0 /\ io.smtp_sessions = 0
        /\ io.deliverability = 0
        /\ io.catchall_calls = 0 /\ io.catchall_sessions = 0
        /\ io.internet = 0

C1_Witness ==
    /\ pc = "done"
    /\ call.domain = "corp.io"
    /\ io.resolver = 1
    /\ ~mx_check.valid
    /\ mx_check.error = "No MX records found"

\* C2: when the probe of the address was rejected, verify_email returns
\* status invalid and confidence 0.0, whatever the catch-all result, the
\* deliverability signals, fast or full mode and the confidence mode.
C2_RejectedIsInvalidZero ==
    (pc = "done" /\ smtp_result.rejected) =>
        /\ fusion = 0
        /\ result.status = "invalid"
        /\ result.confidence = 0

C2_Witness ==
    /\ pc = "done"
    /\ smtp_result.rejected
    /\ call.confidence_mode = "aggressive"
    /\ ~call.fast_mode
    /\ ~catch_all.is_catchall
    /\ deliverability.spf /\ deliverability.dkim /\ deliverability.dmarc

\* C3: with a valid MX, the status is: probe skipped -> likely_valid if
\* (spf or dmarc) else unknown; accepted -> catch-all if is_catchall else
\* valid; rejected -> invalid; otherwise -> likely_valid if (spf or dmarc)
\* else unknown.  dkim alone never gives likely_valid.
C3_StatusRules ==
    Classified =>
        /\ result.status =
             CASE smtp_result.skipped ->
                    IF deliverability.spf \/ deliverability.dmarc
                    THEN "likely_valid" ELSE "unknown"
               [] ~smtp_result.skipped /\ smtp_result.accepted ->
                    IF catch_all.is_catchall THEN "catch-all" ELSE "valid"
               [] ~smtp_result.skipped /\ ~smtp_result.accepted
                    /\ smtp_result.rejected -> "invalid"
               [] OTHER ->
                    IF deliverability.spf \/ deliverability.dmarc
                    THEN "likely_valid" ELSE "unknown"
        /\ (~deliverability.spf /\ ~deliverability.dmarc)
              => result.status # "likely_valid"

C3_Witness ==
    /\ Classified
    /\ Inconclusive
    /\ deliverability.dkim /\ ~deliverability.spf /\ ~deliverability.dmarc
    /\ result.status = "unknown"

\* C4: the returned confidence is the fusion score, except for likely_valid:
\* min(0.75, fusion + 0.15) after a skipped probe and min(0.70, fusion + 0.10)
\* after an inconclusive one.
C4_ReturnedConfidence ==
    Classified =>
        result.confidence =
            IF result.status = "likely_valid" /\ smtp_result.skipped
            THEN Min(75 * 100, fusion + 15 * 100)
            ELSE IF result.status = "likely_valid"
            THEN Min(70 * 100, fusion + 10 * 100)
            ELSE fusion

\* an inconclusive probe whose boost is cut by the cap of 0.70
C4_Witness ==
    /\ Classified
    /\ Inconclusive
    /\ result.status = "likely_valid"
    /\ fusion = 65 * 100
    /\ result.confidence = 70 * 100

\* number of true signals among spf, dkim, dmarc of the call
Signals == SecurityCount(deliverability)

\* 0.60 if accepted + 0.10 if MX valid + 0.15 if not catch-all + 0.05 per
\* signal, for the record d
WeightedSum(d) ==
    100 * ( (IF smtp_result.accepted THEN 60 ELSE 0)
          + (IF mx_check.valid THEN 10 ELSE 0)
          + (IF ~catch_all.is_catchall THEN 15 ELSE 0)
          + 5 * SecurityCount(d) )

\* C5: in balanced mode, for a probe that is not rejected, the fusion score
\* is 0.60 if accepted + 0.10 if MX valid + 0.15 if not catch-all + 0.05 per
\* true signal, to two decimals.
C5_BalancedSum ==
    (Classified /\ call.confidence_mode = "balanced" /\ ~smtp_result.rejected)
        => fusion = WeightedSum(deliverability)

\* valid MX, SPF only, accepted, not catch-all: valid with 0.90
C5_Witness ==
    /\ Classified
    /\ call.confidence_mode = "balanced"
    /\ smtp_result.accepted
    /\ ~catch_all.is_catchall
    /\ deliverability.spf /\ ~deliverability.dkim /\ ~deliverability.dmarc
    /\ result.status = "valid"
    /\ result.confidence = 90 * 100

\* the aggressive adjustments of C6 applied to the sum s
Adjusted(s) ==
    LET s1 == IF ~smtp_result.accepted /\ mx_check.valid
                 /\ (deliverability.spf \/ deliverability.dmarc)
              THEN Max(s, 65 * 100) ELSE s
        s2 == IF smtp_result.skipped /\ mx_check.valid
              THEN Max(s1, 60 * 100) ELSE s1
    IN  IF ~catch_all.is_catchall /\ mx_check.valid
        THEN Min(s2 + 10 * 100, 95 * 100) ELSE s2

\* C6: in aggressive mode the fusion score of a probe that is not rejected is
\* the balanced sum, raised to 0.65 if the probe was not accepted and MX is
\* valid and (spf or dmarc); then raised to 0.60 if the probe was skipped and
\* MX is valid; then increased by 0.10 and capped at 0.95 if the domain is
\* not catch-all and MX is valid.  Every other mode is balanced.
C6_AggressiveAdjustments ==
    (Classified /\ ~smtp_result.rejected) =>
        fusion = IF call.confidence_mode = "aggressive"
                 THEN Adjusted(WeightedSum(deliverability))
                 ELSE WeightedSum(deliverability)

\* inconclusive probe, secure domain, not catch-all: floor 0.65, then +0.10
C6_Witness ==
    /\ Classified
    /\ call.confidence_mode = "aggressive"
    /\ Inconclusive
    /\ deliverability.spf
    /\ ~catch_all.is_catchall
    /\ fusion = 75 * 100

DeliverabilityRecords ==
    {check_deliverability(spf, dkim, dmarc) :
        spf \in BOOLEAN, dkim \in BOOLEAN, dmarc \in BOOLEAN}

\* the fusion score of the call had its deliverability record been b
FusionWith(b) ==
    calculate_confidence(smtp_result, catch_all, mx_check, b,
                         call.confidence_mode)

\* C7 as stated: probe outcome, catch-all result, MX validity and mode fixed,
\* a record with at least as many true signals never has a lower confidence.
C7_MonotoneInSignalCount ==
    Classified =>
        \A b \in DeliverabilityRecords :
            SecurityCount(b) >= Signals => FusionWith(b) >= fusion

\* C7 amended: ... a record B with at least as many true signals as A has a
\* confidence at least that of A, provided, in aggressive mode, that B has
\* spf or dmarc whenever A has.
C7_MonotoneAmended ==
    Classified =>
        \A b \in DeliverabilityRecords :
            ( /\ SecurityCount(b) >= Signals
              /\ (call.confidence_mode = "aggressive"
                    /\ (deliverability.spf \/ deliverability.dmarc))
                 => (b.spf \/ b.dmarc) )
            => FusionWith(b) >= fusion

\* aggressive mode, dmarc the only signal, floor of 0.65 applied
C7_Witness ==
    /\ Classified
    /\ call.confidence_mode = "aggressive"
    /\ Inconclusive
    /\ deliverability.dmarc /\ ~deliverability.spf /\ ~deliverability.dkim
    /\ catch_all.is_catchall
    /\ fusion = 65 * 100

\* the fusion score of the call had its mode been m
FusionIn(m) ==
    calculate_confidence(smtp_result, catch_all, mx_check, deliverability, m)

\* every weight of the fusion is earned: probe accepted, MX valid, not
\* catch-all, spf, dkim and dmarc present
FullScore ==
    /\ smtp_result.accepted
    /\ mx_check.valid
    /\ ~catch_all.is_catchall
    /\ Signals = 3

\* C33 as stated: on the same inputs the aggressive confidence is never below
\* the balanced confidence.
C33_AggressiveAtLeastBalanced ==
    (Classified /\ call.confidence_mode = "aggressive") =>
        fusion >= FusionIn("balanced")

\* C33 amended: the aggressive confidence is never below the balanced
\* confidence, except when every weight is earned: there the balanced
\* confidence is 1.00 and the aggressive confidence is the cap, 0.95.
C33_AggressiveAtLeastBalancedAmended ==
    (Classified /\ call.confidence_mode = "aggressive") =>
        IF FullScore
        THEN fusion = AGGRESSIVE_CAP /\ FusionIn("balanced") = Unit
        ELSE fusion >= FusionIn("balanced")

\* probe skipped, no signal, catch-all stage skipped: the floor of 0.60 and
\* the bonus lift 0.25 to 0.70
C33_Witness ==
    /\ Classified
    /\ call.confidence_mode = "aggressive"
    /\ smtp_result.skipped
    /\ Signals = 0
    /\ FusionIn("balanced") = 25 * 100
    /\ fusion = 70 * 100

\* C34 as stated: whenever verify_email returns likely_valid, the returned
\* confidence is at least the fusion score of the call, in balanced and in
\* aggressive mode.
C34_BoostNeverLowers ==
    (Classified /\ result.status = "likely_valid") =>
        result.confidence >= fusion

\* C34 amended: a likely_valid result has a confidence of at least the fusion
\* score, except in aggressive mode after an inconclusive probe on a domain
\* that is not catch-all: there the fusion score is 0.75 and the returned
\* confidence is the cap of the branch, 0.70, raised to the min_confidence of
\* an override of the domain if there is one.
C34_BoostNeverLowersAmended ==
    (Classified /\ result.status = "likely_valid") =>
        IF /\ call.confidence_mode = "aggressive"
           /\ Inconclusive
           /\ ~catch_all.is_catchall
        THEN /\ fusion = 75 * 100
             /\ result.confidence =
                   ApplyOverride([status |-> "likely_valid",
                                  confidence |-> CAP_TIMEOUT],
                                 call.domain, overrides).confidence
        ELSE result.confidence >= fusion

\* aggressive mode, probe skipped, spf present, not catch-all: the fusion
\* score is 0.75 and the capped boost returns 0.75
C34_Witness ==
    /\ Classified
    /\ result.status = "likely_valid"
    /\ call.confidence_mode = "aggressive"
    /\ smtp_result.skipped
    /\ ~catch_all.is_catchall
    /\ fusion = 75 * 100
    /\ result.confidence = CAP_SKIPPED

\* C35: with the override table empty, verify_email returns status invalid
\* exactly when it returns confidence 0.0, and every result with another
\* status has a confidence of at least 0.10.
C35_InvalidIffZero ==
    (pc = "done" /\ overrides = DefaultOverrides) =>
        /\ result.status = "invalid" <=> result.confidence = 0
        /\ result.status # "invalid" => result.confidence >= W_MX

\* aggressive mode, a secure domain that is not catch-all, probe rejected:
\* invalid with confidence 0.0, where the floors alone would give 0.75
C35_Witness ==
    /\ Classified
    /\ call.confidence_mode = "aggressive"
    /\ smtp_result.rejected
    /\ deliverability.spf
    /\ ~catch_all.is_catchall
    /\ result.status = "invalid"
    /\ result.confidence = 0

\* the catch-all stage has run
CatchAllStageDone == MxStageDone /\ mx_check.valid
                        /\ pc \in {"internet", "classify", "done"}

\* fast mode: no handshake, no session, is_catchall = false, skipped = true
C8_FastStage ==
    (CatchAllStageDone /\ call.fast_mode) =>
        /\ io.catchall_calls = 0 /\ io.catchall_sessions = 0
        /\ ~catch_all.is_catchall
        /\ catch_all.skipped

\* full mode: one probe of a random 15-character local part at the domain of
\* the call, is_catchall exactly when it was accepted
C8_FullStage ==
    (CatchAllStageDone /\ ~call.fast_mode) =>
        /\ io.catchall_calls = 1
        /\ ~catch_all.skipped
        /\ Contains(catch_all.test_email, "@")
        /\ Len(LocalPart(catch_all.test_email)) = 15
        /\ DomainPart(catch_all.test_email) = call.domain
        /\ catch_all.is_catchall = io.catchall_accepted

\* fast mode, probe skipped, valid MX, SPF the only signal
C8_Scenario ==
    /\ Classified
    /\ call.fast_mode
    /\ smtp_result.skipped
    /\ deliverability.spf /\ ~deliverability.dkim /\ ~deliverability.dmarc

\* C8 as stated: in fast mode the catch-all stage opens no session and gives
\* is_catchall = false, skipped = true, and a skipped probe with valid MX and
\* SPF only gives likely_valid with min(0.75, (0.10 + 0.15 + 0.05) + 0.15);
\* in full mode the stage probes one random 15-character local part at the
\* same domain and is_catchall is true exactly when that probe was accepted.
C8_CatchAllStage ==
    /\ C8_FastStage
    /\ C8_FullStage
    /\ C8_Scenario =>
          /\ result.status = "likely_valid"
          /\ result.confidence = Min(75 * 100, (10 + 15 + 5) * 100 + 15 * 100)

\* C8 amended: the same, the confidence of the scenario being that of every
\* mode but aggressive.
C8_CatchAllStageAmended ==
    /\ C8_FastStage
    /\ C8_FullStage
    /\ (C8_Scenario /\ call.confidence_mode # "aggressive") =>
          /\ result.status = "likely_valid"
          /\ result.confidence = Min(75 * 100, (10 + 15 + 5) * 100 + 15 * 100)

C8_Witness ==
    /\ C8_Scenario
    /\ call.confidence_mode = "balanced"
    /\ io.catchall_calls = 0
    /\ result.confidence = 45 * 100

-----------------------------------------------------------------------------
(* Properties of smtp_handshake (SpecProbe) *)

\* C9: in every outcome smtp_handshake returns, accepted and rejected are
\* not both true, and skipped implies neither, whatever the hosts replied
\* and whichever connections failed.
C9_OutcomeConsistent ==
    hpc = "returned" =>
        /\ ~(hres.accepted /\ hres.rejected)
        /\ hres.skipped => (~hres.accepted /\ ~hres.rejected)

\* first host greylists, second host accepts
C9_Witness ==
    /\ hpc = "returned"
    /\ Len(hlog) = 2
    /\ hlog[1].rcptReplied /\ hlog[1].reply.rcpt = 450
    /\ hlog[2].rcptReplied /\ hlog[2].reply.rcpt = 250
    /\ hres.accepted

\* the decision C10 gives for the recipient reply code c
DecisionFor(c) ==
    IF c \in {250, 251} THEN "accepted"
    ELSE IF c \in {550, 553} THEN "rejected"
    ELSE IF c \in {450, 451, 421} THEN "continue"
    ELSE IF 500 <= c /\ c < 600 THEN "rejected"
    ELSE "continue"

\* C10: a host whose recipient reply code is c makes smtp_handshake return
\* accepted for 250 and 251, return rejected for 550, 553 and every other
\* 5xx, and continue with the next host for 450, 451, 421 and every other
\* code; rejected is returned only for a 5xx recipient reply.
C10_ReplyCodeDecides ==
    /\ \A k \in 1..Len(hlog) :
         hlog[k].rcptReplied =>
            LET decision == DecisionFor(hlog[k].reply.rcpt)
            IN  /\ hlog[k].decision = decision
                /\ decision # "continue" =>
                     /\ hpc = "returned"
                     /\ k = Len(hlog)
                     /\ hres.accepted = (decision = "accepted")
                     /\ hres.rejected = (decision = "rejected")
    /\ hres.rejected =>
         /\ hlog # <<>>
         /\ hlog[Len(hlog)].rcptReplied
         /\ 500 <= hlog[Len(hlog)].reply.rcpt
         /\ hlog[Len(hlog)].reply.rcpt < 600


\* the last session of the handshake so far
LastSession == hlog[Len(hlog)]

\* C11: smtp_handshake contacts only the first two hosts of the MX list, in
\* list order, each at most once; the second host is contacted only if the
\* first ended in a continue decision; the recipient command is sent to a
\* host only if that host answered the sender command with 250 or 251; on an
\* accepted or rejected outcome mx_used is the host that gave that reply.
C11_HostOrder ==
    /\ Len(hlog) <= 2
    /\ Len(hlog) <= Len(hargs.mx_hosts)
    /\ \A k \in 1..Len(hlog) : hlog[k].host = hargs.mx_hosts[k]
    /\ \A k \in 1..Len(hlog) : k < Len(hlog) => hlog[k].decision = "continue"
    /\ \A k \in 1..Len(hlog) :
         hlog[k].rcptSent =>
            /\ hlog[k].mailSent
            /\ hlog[k].reply.failAt \notin {"create", "connect", "mail"}
            /\ hlog[k].reply.mail \in {250, 251}
    /\ (hres.accepted \/ hres.rejected) =>
         /\ hlog # <<>>
         /\ LastSession.rcptReplied
         /\ LastSession.decision \in {"accepted", "rejected"}
         /\ hres.mx_used = LastSession.host

\* three hosts listed; the first refuses the sender, the second rejects the
\* recipient, the third is never contacted
C11_Witness ==
    /\ hpc = "returned"
    /\ Len(hargs.mx_hosts) = 3
    /\ Len(hlog) = 2
    /\ ~hlog[1].rcptSent /\ hlog[1].reply.mail = 550
    /\ hlog[2].rcptSent /\ hlog[2].reply.rcpt = 553
    /\ hres.rejected /\ hres.mx_used = hargs.mx_hosts[2]

\* for each probe domain whether it is on the blocked-provider list, and
\* for each host whether its name contains a transactional-service substring
BlockedProbeDomain == [d \in ProbeDomains |-> IsBlockedDomain(d)]
TransactionalHost == [h \in HostPool |-> IsTransactional(<<h>>)]

\* a skip rule applies to the arguments of the call
SkipApplies ==
    \/ BlockedProbeDomain[hargs.domain]
    \/ \E k \in 1..Len(hargs.mx_hosts) :
          k <= 2 /\ TransactionalHost[hargs.mx_hosts[k]]

\* the session raised: connection failure, timeout or disconnect
SessionFailed(entry) == entry.reply.failAt # "never"

\* C12: a connection failure, timeout or disconnect on a host never gives
\* rejected = true and never leaves smtp_handshake: the loop goes on with the
\* next host, and when every probed host ended without accept or reject (an
\* empty host list included) the outcome is skipped = false,
\* accepted = false, rejected = false with a non-empty error reason.
C12_FailuresAreInconclusive ==
    /\ \A k \in 1..Len(hlog) :
         SessionFailed(hlog[k]) =>
            /\ hlog[k].decision = "continue"
            /\ k = Len(hlog) => (~hres.rejected /\ ~hres.accepted)
            /\ hidx > k
            /\ (hpc = "returned" /\ k = Len(hlog)) =>
                  hidx > Len(hargs.mx_hosts) \/ hidx > 2
    /\ ( /\ hpc = "returned"
         /\ ~SkipApplies
         /\ \A k \in 1..Len(hlog) : hlog[k].decision = "continue" ) =>
            /\ ~hres.skipped /\ ~hres.accepted /\ ~hres.rejected
            /\ hres.error # None
            /\ Len(hres.error) > 0

\* the first host times out on connect, the second drops the connection
\* after the recipient command; the call returns inconclusive
C12_Witness ==
    /\ hpc = "returned"
    /\ Len(hlog) = 2
    /\ hlog[1].reply = Session("connect", "timeout", 0, 0)
    /\ hlog[2].reply = Session("rcpt", "disconnected", 250, 0)
    /\ ~hres.accepted /\ ~hres.rejected /\ ~hres.skipped
    /\ hres.error = "Connection timeout"

\* C13: both skip rules are evaluated before any connection is opened: if
\* the domain matches the blocked-provider list, or either of the first two
\* MX hosts contains a transactional-service substring, the outcome is
\* skipped = true with a reason, accepted = false, rejected = false, and no
\* SMTP connection is opened in the call.
C13_SkipBeforeConnect ==
    ( /\ hpc # "start"
      /\ SkipApplies ) =>
        /\ hpc = "returned"
        /\ hres.skipped /\ ~hres.accepted /\ ~hres.rejected
        /\ hres.error # None /\ Len(hres.error) > 0
        /\ hlog = <<>>
        /\ Connections(hlog) = 0

\* the second of three hosts is a transactional service, the domain is not
\* a blocked provider
C13_Witness ==
    /\ hpc = "returned"
    /\ ~BlockedProbeDomain[hargs.domain]
    /\ Len(hargs.mx_hosts) = 3
    /\ hargs.mx_hosts[1] = "mx1.corp.io"
    /\ hargs.mx_hosts[2] = "smtp.sendgrid.net"
    /\ hres.skipped
    /\ hlog = <<>>


\* the domain is an entry of the blocked list or a subdomain of one
ListedProvider(domain) ==
    \E blocked \in smtp_blocked_domains :
        \/ Lower(domain) = blocked
        \/ EndsWith(Lower(domain), "." \o blocked)

\* smtp_handshake returned by the blocked-provider rule
BlockedRuleFired ==
    /\ hpc = "returned"
    /\ hres.skipped
    /\ hres.error = "SMTP check skipped (domain typically blocks verification)"

\* C32: the blocked-provider rule fires exactly when the domain is an entry
\* of the blocked list or a dot-separated subdomain of one; for a domain that
\* only contains an entry inside a longer label the rule does not fire and
\* the hosts are probed.
C32_BlockedRuleExact ==
    hpc # "start" =>
        /\ BlockedRuleFired <=> ListedProvider(hargs.domain)
        /\ ( /\ ~ListedProvider(hargs.domain)
             /\ ~IsTransactional(hargs.mx_hosts)
             /\ hargs.mx_hosts # <<>>
             /\ hpc = "returned" ) => hlog # <<>>

-----------------------------------------------------------------------------
(* Properties of the MX cache over sequential calls (SpecCache) *)

\* the resolver was queried for domain d less than cache_ttl before now
ResolvedWithinTtl(d) ==
    /\ d \in DOMAIN resolver_calls
    /\ now - resolver_calls[d].last < cache_ttl

\* this step queries the resolver for domain d
QueriesResolver(d) ==
    /\ d \in DOMAIN resolver_calls'
    /\ resolver_calls'[d].last = now
    /\ resolver_calls'[d].count =
          IF d \in DOMAIN resolver_calls THEN resolver_calls[d].count + 1
          ELSE 1

\* C14: over sequential verify_email calls on one EmailVerifier the MX
\* resolver is queried for domain d exactly when the cache holds no entry
\* for d stored less than cache_ttl ago: a repeat within the TTL makes no
\* second query (also when the stored record is valid = false) and returns
\* the stored record, a read at or after the expiry time resolves again and
\* stores the new record for a full TTL, and a hit leaves the expiry of the
\* entry as it was.
C14_ResolverExactlyWhenStale ==
    [][ (pc = "mx" /\ pc' # "mx") =>
          LET d == call.domain
          IN  IF ResolvedWithinTtl(d)
              THEN /\ resolver_calls' = resolver_calls
                   /\ mx_cache' = mx_cache
                   /\ mx_check' = mx_cache[d].value
              ELSE /\ QueriesResolver(d)
                   /\ d \in DOMAIN mx_cache'
                   /\ mx_cache'[d].value = mx_check'
                   /\ mx_cache'[d].expires_at = now + cache_ttl
                   /\ \A e \in DOMAIN resolver_calls :
                        e # d => /\ e \in DOMAIN resolver_calls'
                                 /\ resolver_calls'[e] = resolver_calls[e]
      ]_vars

\* a failed resolution stored at time 1 was served from the cache and, at
\* its expiry time, resolved again
C14_Witness ==
    /\ pc = "done"
    /\ call.domain = "corp.io"
    /\ ~mx_check.valid
    /\ "corp.io" \in DOMAIN resolver_calls
    /\ resolver_calls["corp.io"] = [count |-> 2, last |-> cache_ttl + 1]
    /\ "gmail.com" \in DOMAIN resolver_calls
    /\ resolver_calls["gmail.com"] = [count |-> 1, last |-> cache_ttl]


-----------------------------------------------------------------------------
(* Properties of concurrent cache calls (SpecRace) *)

\* the entries assigned by the _set_cache calls so far
StoredEntries == UNION {threads[w].stored : w \in Threads}

\* C15: under any interleaving of concurrent _get_cached and _set_cache
\* calls on one key, a read returns nothing or the complete value of an
\* entry some write stored, together with that write's expiry time and
\* never past it; and the entry an expired read evicts is the expired entry
\* it examined, never one written since.
C15_RaceFree ==
    \A t \in Threads :
        /\ threads[t].ret.hit =>
             /\ threads[t].entry \in StoredEntries
             /\ threads[t].ret.value = threads[t].entry.value
             /\ threads[t].ret.value \in RaceValues
             /\ threads[t].entry.expires_at > threads[t].tested_at
        /\ threads[t].popped.present =>
             /\ threads[t].popped = threads[t].entry
             /\ threads[t].popped.expires_at <= threads[t].tested_at
        /\ threads[t].pc = "get_pop" =>
             /\ RaceKey \in DOMAIN mx_cache
             /\ mx_cache[RaceKey].expires_at <= threads[t].tested_at

\* a reader evicted an expired entry while the other thread, which had
\* stored it, waited to store again; then the new entry is in the cache
C15_Witness ==
    /\ threads["t1"].popped.present
    /\ threads["t1"].pc = "idle"
    /\ threads["t2"].ops = 2
    /\ threads["t2"].pc = "idle"
    /\ Cardinality(threads["t2"].stored) = 2
    /\ RaceKey \in DOMAIN mx_cache
    /\ mx_cache[RaceKey].expires_at > now


-----------------------------------------------------------------------------
(* Properties of concurrent verify_email calls (SpecWorkers) *)

\* the workers that made the lookup of a stage
LookedUp(stage) == { t \in Threads : threads[t].looked[stage].done }

\* C37 as stated: under any interleaving of concurrent verify_email calls
\* for one domain, the MX resolver and the deliverability lookup are each
\* invoked at most once within one cache TTL window.
C37_OncePerWindow ==
    \A stage \in CachedStages : \A t1, t2 \in LookedUp(stage) :
        t1 # t2 =>
           \/ threads[t1].looked[stage].at - threads[t2].looked[stage].at
                 >= cache_ttl
           \/ threads[t2].looked[stage].at - threads[t1].looked[stage].at
                 >= cache_ttl

\* C37 amended: a call makes the lookup of a stage only when its own cache
\* read met no unexpired entry, and at most once; the MX resolver is asked
\* once per call that made the lookup.
C37_LookupOnlyAfterMiss ==
    /\ \A stage \in CachedStages : \A t \in LookedUp(stage) :
          /\ threads[t].read[stage].done
          /\ ~threads[t].read[stage].fresh
    /\ IF LookedUp("mx") = {} THEN RaceKey \notin DOMAIN resolver_calls
       ELSE resolver_calls[RaceKey].count = Cardinality(LookedUp("mx"))

\* t1 resolved the domain and stored the record, t2 read it from the cache;
\* then both read the deliverability cache before either stored, and both
\* made the lookup in the same second
C37_Witness ==
    /\ \A t \in Threads : threads[t].stage = "returned"
    /\ LookedUp("mx") = {"t1"}
    /\ threads["t2"].read["mx"].fresh
    /\ LookedUp("deliverability") = Threads
    /\ threads["t1"].looked["deliverability"].at
          = threads["t2"].looked["deliverability"].at

-----------------------------------------------------------------------------
(* Properties of generate_patterns and find_best_emails (SpecFinder) *)

\* generate_patterns has just returned or raised
JustGenerated ==
    \/ fpc \in {"prioritize", "raised"}
    \/ fpc = "returned" /\ patterns = <<>>

\* the names and the domain after normalisation: lower-case, trimmed, '@'
\* stripped from the end of the domain
NormalFirst == Strip(Lower(fargs.first_name))
NormalLast == Strip(Lower(fargs.last_name))
NormalDomain == RStripAt(Strip(Lower(fargs.domain)))

EmptyAfterNormalization ==
    NormalFirst = "" \/ NormalLast = "" \/ NormalDomain = ""

NoDuplicates(seq) == Cardinality({seq[k] : k \in 1..Len(seq)}) = Len(seq)

\* the list is not empty, has no duplicates and every address is at the
\* normalised domain
AtDomain ==
    /\ fpc # "raised"
    /\ patterns # <<>>
    /\ NoDuplicates(patterns)
    /\ LET at == "@" \o NormalDomain
       IN  \A k \in 1..Len(patterns) : EndsWith(patterns[k], at)

PlainTemplates ==
    LET tokens == Tokens(NormalFirst, NormalLast, NormalDomain)
    IN  \A k \in 1..Len(fargs.custom_patterns) :
            LET text == Format(Strip(fargs.custom_patterns[k]), tokens)
            IN  \/ text.error = "KeyError"
                \/ text.error = "none" /\ ~Contains(text.text, "@")

C17_EmptyInputs ==
    (fpc # "start" /\ EmptyAfterNormalization) =>
        /\ patterns = <<>>
        /\ fpc = "returned"
        /\ returned = <<>>
        /\ verified = <<>>

\* a domain that is only '@', with built-ins and a custom template
C17_Witness ==
    /\ fpc = "returned"
    /\ fargs.first_name = "Ann" /\ fargs.last_name = "Lee"
    /\ fargs.domain = "@"
    /\ fargs.include_defaults
    /\ fargs.custom_patterns = << "{first}" >>
    /\ fargs.max_patterns = 0
    /\ returned = <<>> /\ verified = <<>>

\* the five priority shapes at the domain, names and domain lower-cased
PriorityShapes ==
    LET first == Lower(fargs.first_name)
        last == Lower(fargs.last_name)
        f == Lower(SubSeq(fargs.first_name, 1, 1))
        at == "@" \o Lower(fargs.domain)
    IN  << first \o "." \o last \o at, first \o last \o at, first \o at,
           f \o "." \o last \o at, f \o last \o at >>

\* the prioritised list has just been built
JustPrioritized == fpc = "loop" /\ findex = 1 /\ verified = <<>>

\* C18: the probing order is the priority shapes that occur among the
\* candidates, in priority-list order, then every other candidate in
\* generation order; it is a permutation of the candidate list.
C18_PriorityOrder ==
    JustPrioritized =>
        LET shapes == PriorityShapes
            n == Len(ordered_patterns)
            rank == Tuple([k \in 1..n |->
                        IF InSeq(ordered_patterns[k], shapes)
                        THEN CHOOSE j \in 1..Len(shapes) :
                                /\ shapes[j] = ordered_patterns[k]
                                /\ \A i \in 1..(j - 1) :
                                      shapes[i] # shapes[j]
                        ELSE Len(shapes)
                             + (CHOOSE j \in 1..Len(patterns) :
                                    patterns[j] = ordered_patterns[k])])
        IN  /\ n = Len(patterns)
            /\ \A k \in 1..n : InSeq(ordered_patterns[k], patterns)
            /\ \A k \in 1..(n - 1) : rank[k] < rank[k + 1]

\* all five shapes occur (first-only through a custom template) and lead
\* the list; the candidate generated second comes sixth
C18_Witness ==
    /\ JustPrioritized
    /\ fargs.first_name = "Ann" /\ fargs.last_name = "Lee"
    /\ fargs.domain = "Corp.io"
    /\ SubSeq(ordered_patterns, 1, 6) =
          << "ann.lee@corp.io", "annlee@corp.io", "ann@corp.io",
             "a.lee@corp.io", "alee@corp.io", "ann_lee@corp.io" >>
    /\ patterns[2] = "ann_lee@corp.io"
    /\ patterns[Len(patterns)] = "ann@corp.io"

\* the probe cap: max(1, min(max_patterns, number of candidates))
Cap == Max(1, Min(fargs.max_patterns, Len(patterns)))

\* the number of results collected by the first k verifications
CollectedBy(k) ==
    Cardinality({j \in 1..k :
                    /\ ~verified[j].verification.raised
                    /\ verified[j].verification.status
                          \in {"valid", "catch-all", "likely_valid"}})

\* the k-th verification collected a result of confidence 0.8 or more
\* while max_results or more results were collected
StopsAt(k) ==
    /\ ~verified[k].verification.raised
    /\ verified[k].verification.status \in {"valid", "catch-all", "likely_valid"}
    /\ verified[k].verification.confidence >= 80 * 100
    /\ CollectedBy(k) >= fargs.max_results

\* C19: as soon as a candidate is collected with confidence 0.8 or more
\* while max_results or more results are collected, no further candidate is
\* verified; otherwise probing goes on to the probe cap.  With
\* max_results = 1 and a first candidate valid at 0.9, one verification is
\* made and that result is returned.
C19_EarlyStop ==
    /\ \A k \in 1..Len(verified) :
         StopsAt(k) => (k = Len(verified) /\ fpc \in {"sort", "returned"})
    /\ ( /\ fpc \in {"sort", "returned"}
         /\ patterns # <<>>
         /\ \A k \in 1..Len(verified) : ~StopsAt(k) ) =>
            Len(verified) = Cap
    /\ ( /\ fpc = "returned"
         /\ fargs.max_results = 1
         /\ verified # <<>>
         /\ verified[1].verification = Verification(FALSE, "valid", 90 * 100) ) =>
            /\ Len(verified) = 1
            /\ returned = << [email |-> verified[1].email, status |-> "valid",
                              confidence |-> 90 * 100] >>

\* max_results = 1 and a budget of two probes: the first candidate is
\* collected as catch-all at 0.8, the second is never verified
C19_Witness ==
    /\ fpc = "returned"
    /\ fargs.max_results = 1 /\ fargs.max_patterns = 2
    /\ Len(patterns) > 2
    /\ Len(verified) = 1
    /\ verified[1].verification = Verification(FALSE, "catch-all", 80 * 100)
    /\ Len(returned) = 1

\* C20: find_best_emails calls the verifier at most
\* max(1, min(max_patterns, number of candidates)) times, on a prefix of the
\* prioritised list in order, never twice on one candidate, for every
\* max_patterns, zero and negative included.
C20_ProbeBudget ==
    /\ Len(verified) <= Cap
    /\ Len(verified) <= Len(ordered_patterns)
    /\ \A k \in 1..Len(verified) : verified[k].email = ordered_patterns[k]
    /\ \A i \in 1..Len(verified) : \A j \in (i + 1)..Len(verified) :
         verified[i].email # verified[j].email
    /\ findex <= Cap + 1
    /\ verified # <<>> => patterns # <<>>

\* max_patterns = -1: one candidate is verified and the search returns
C20_Witness ==
    /\ fpc = "returned"
    /\ fargs.max_patterns = -1
    /\ Len(patterns) > 1
    /\ Len(verified) = 1
    /\ verified[1].email = ordered_patterns[1]
    /\ verified[1].verification.status = "invalid"


\* verify_email returned a status that find_best_emails collects
Collected(v) ==
    /\ ~v.verification.raised
    /\ v.verification.status \in {"valid", "catch-all", "likely_valid"}

\* the entry find_best_emails makes of a collected verification
ResultOf(v) ==
    [email |-> v.email, status |-> v.verification.status,
     confidence |-> v.verification.confidence]

\* the entries made of the collected verifications, in probing order
CollectedResults ==
    LET kept == Keep(verified, {k \in 1..Len(verified) : Collected(verified[k])})
    IN  Tuple([k \in 1..Len(kept) |-> ResultOf(kept[k])])

\* the probe loop is over
LoopOver == fpc \in {"sort", "returned"}

\* no exception leaves the probe loop, and the results list holds exactly
\* the collected verifications: one that raised adds nothing and removes
\* nothing
FailureContained ==
    /\ verified # <<>> => fpc \in {"loop", "sort", "returned"}
    /\ fpc \in {"loop", "sort", "returned"} => results = CollectedResults

\* C21 as stated: an exception raised while one candidate is verified is not
\* propagated, the candidate contributes no result, the results collected
\* before are kept, and every later candidate within the probe cap is still
\* verified.
C21_FailureIsolated ==
    /\ FailureContained
    /\ \A k \in 1..Len(verified) :
         (LoopOver /\ verified[k].verification.raised) => Len(verified) = Cap

\* C21 amended: the same, the later candidates being verified up to the
\* probe cap or up to the candidate at which the stop rule ends the search.
C21_FailureIsolatedAmended ==
    /\ FailureContained
    /\ \A k \in 1..Len(verified) :
         (LoopOver /\ verified[k].verification.raised) =>
            \/ Len(verified) = Cap
            \/ \E j \in (k + 1)..Len(verified) : StopsAt(j)
    /\ \A k \in 1..Len(verified) :
         (verified[k].verification.raised /\ k < Cap) =>
            \/ Len(verified) > k
            \/ fpc = "loop" /\ findex = k + 1

\* a result is collected, the second verification raises, the third
\* candidate is verified all the same and both results are returned
C21_Witness ==
    /\ fpc = "returned"
    /\ Len(verified) = 3
    /\ verified[1].verification = Verification(FALSE, "likely_valid", 75 * 100)
    /\ verified[2].verification.raised
    /\ verified[3].verification = Verification(FALSE, "catch-all", 80 * 100)
    /\ Len(returned) = 2
    /\ returned[1].email = verified[3].email
    /\ returned[2].email = verified[1].email

\* the place of a returned entry in the probing order
ProbedAt(r) == CHOOSE k \in 1..Len(verified) : verified[k].email = r.email

\* the returned list holds collected verifications only, by confidence
\* descending and, at equal confidence, in probing order; it is the
\* highest-confidence collected results, max_results of them or all when
\* there are fewer
BestOfCollected ==
    /\ \A i \in 1..Len(returned) :
         \E k \in 1..Len(verified) :
            Collected(verified[k]) /\ returned[i] = ResultOf(verified[k])
    /\ \A i \in 1..(Len(returned) - 1) :
         \/ returned[i].confidence > returned[i + 1].confidence
         \/ /\ returned[i].confidence = returned[i + 1].confidence
            /\ ProbedAt(returned[i]) < ProbedAt(returned[i + 1])
    /\ Len(returned) = Min(fargs.max_results, Len(CollectedResults))
    /\ \A k \in 1..Len(verified) :
         (Collected(verified[k]) /\ ~InSeq(ResultOf(verified[k]), returned)) =>
            \A i \in 1..Len(returned) :
               \/ returned[i].confidence > verified[k].verification.confidence
               \/ /\ returned[i].confidence = verified[k].verification.confidence
                  /\ ProbedAt(returned[i]) < k

\* find_best_email returns the first entry of the list, or None
FirstOrNone ==
    best.returned =>
        best.value = IF returned = <<>> THEN <<>> ELSE << returned[1] >>

CountAt(s) == Cardinality({ i \in 1..Len(s) : SubSeq(s, i, i) = "@" })

\* the domain argument begins with '@'
LeadingAt == Len(fargs.domain) >= 1 /\ SubSeq(fargs.domain, 1, 1) = "@"

\* C29: generate_patterns strips a leading '@' from the domain: for a domain
\* given as '@' followed by d the result equals the result for d, and every
\* returned address contains exactly one '@'.
C29_LeadingAtStripped ==
    (JustGenerated /\ LeadingAt) =>
        LET d == SubSeq(fargs.domain, 2, Len(fargs.domain))
            g == generate_patterns(fargs.first_name, fargs.last_name, d,
                                   fargs.custom_patterns,
                                   fargs.include_defaults)
        IN  /\ (fpc = "raised") = g.raised
            /\ patterns = g.patterns
            /\ \A k \in 1..Len(patterns) : CountAt(patterns[k]) = 1

\* C30: every address generate_patterns returns contains '@', is entirely
\* lower-case and has no surrounding whitespace, custom templates included,
\* and no two addresses of the list differ only in letter case.
C30_NormalisedAddresses ==
    (JustGenerated /\ fpc # "raised") =>
        /\ \A k \in 1..Len(patterns) :
              /\ Contains(patterns[k], "@")
              /\ patterns[k] = Lower(patterns[k])
              /\ patterns[k] = Strip(patterns[k])
        /\ NoDuplicates([k \in 1..Len(patterns) |-> Lower(patterns[k])])

\* the custom template references a token that is not a key of `tokens`:
\* a name outside the set, a number or nothing
UnknownToken(template) ==
    Format(Strip(template), Tokens("a", "b", "c")).error
        \in {"KeyError", "IndexError"}

\* the custom templates that reference recognised tokens only
KnownTemplates ==
    Keep(fargs.custom_patterns,
         { k \in 1..Len(fargs.custom_patterns) :
              ~UnknownToken(fargs.custom_patterns[k]) })

\* C31: a custom template that references a token outside the recognised set
\* contributes no address and raises no error, and every other template
\* still contributes: generate_patterns returns what it returns for the list
\* without that template.
C31_UnknownTokenDiscarded ==
    (JustGenerated /\ KnownTemplates # fargs.custom_patterns) =>
        LET g == generate_patterns(fargs.first_name, fargs.last_name,
                                   fargs.domain, KnownTemplates,
                                   fargs.include_defaults)
        IN  /\ (fpc = "raised") = g.raised
            /\ patterns = g.patterns

\* the arguments of the pool that are x written with other letter case or
\* with leading or trailing whitespace
Variants(x, pool) == { y \in pool : Strip(Lower(y)) = Strip(Lower(x)) }

\* C38: find_best_emails verifies the same candidates in the same
\* prioritised order for (first, last, domain) and for the same inputs
\* written with different letter case or with leading or trailing
\* whitespace.
C38_SameOrderForVariants ==
    (fpc = "loop" /\ verified = <<>>) =>
        \A f \in Variants(fargs.first_name, FirstNames),
           l \in Variants(fargs.last_name, LastNames),
           d \in Variants(fargs.domain, FinderDomains) :
            LET g == Generated[f, l, d, fargs.custom_patterns,
                               fargs.include_defaults]
            IN  /\ ~g.raised
                /\ Prioritize(PriorityPatterns(f, l, d), g.patterns)
                      = ordered_patterns

-----------------------------------------------------------------------------
(* Properties of verify_email on a configured verifier (SpecConfig) *)

\* the statuses of the public result
PublicStatuses == {"invalid", "unknown", "likely_valid", "valid", "catch-all"}

\* C23: with the override table empty, as shipped, every result verify_email
\* returns has one of the five public statuses and a confidence from 0.0 to
\* 1.0, in every mode and for every combination of stage outcomes.
C23_StatusAndConfidenceInRange ==
    (pc = "done" /\ overrides = DefaultOverrides) =>
        /\ result.status \in PublicStatuses
        /\ result.confidence >= 0
        /\ result.confidence <= Unit

\* aggressive mode: every signal is present and the bonus is cut at 0.95;
\* balanced mode reaches 1.0
C23_Witness ==
    /\ pc = "done"
    /\ overrides = DefaultOverrides
    /\ call.confidence_mode = "aggressive"
    /\ smtp_result.accepted
    /\ ~catch_all.skipped /\ ~catch_all.is_catchall
    /\ SecurityCount(deliverability) = 3
    /\ result = [status |-> "valid", confidence |-> 95 * 100]

\* what the classification rules give before the override: rule 1 for a
\* domain without mail hosts, the rules of lines 165-190 otherwise
Verdicts ==
    IF MxInvalid(mx_check) THEN [status |-> "invalid", confidence |-> 0]
    ELSE DetermineStatus(smtp_result, catch_all, mx_check, deliverability,
                         fusion)

\* C26: for a domain in the override table the override is the last step of
\* every verify_email call, whichever rule gave the verdict: the confidence
\* returned is max(computed confidence, min_confidence) and the status is
\* force_status when one is given.
C26_OverrideAppliedLast ==
    (pc = "done" /\ call.domain \in DOMAIN overrides) =>
        LET o == overrides[call.domain]
        IN  /\ result.confidence =
                  IF o.has_min
                  THEN Max(Verdicts.confidence, o.min_confidence)
                  ELSE Verdicts.confidence
            /\ result.status =
                  IF o.has_force THEN o.force_status ELSE Verdicts.status


-----------------------------------------------------------------------------
(* Properties of check_mx_records as verify_email calls it (Spec) *)

\* check_mx_records has answered this call
MxResolved == pc \notin {"idle", "mx"} /\ dns_answer # NotAsked

\* C27: the record check_mx_records returns is valid exactly when mx_hosts
\* is not empty; with MX records the hosts are those of the answer in
\* ascending priority; without MX answer but with an address record the
\* domain is the only host, at priority 0; for a domain that does not exist
\* and for every other failure the record is invalid, without hosts and with
\* an error reason.
C27_MxRecordShape ==
    MxResolved =>
        /\ mx_check.valid <=> mx_check.mx_hosts # <<>>
        /\ dns_answer.mx = "records" =>
              /\ mx_check.valid
              /\ Len(mx_check.mx_details) = Len(dns_answer.records)
              /\ \A k \in 1..Len(dns_answer.records) :
                    InSeq(dns_answer.records[k], mx_check.mx_details)
              /\ \A k \in 1..(Len(mx_check.mx_details) - 1) :
                    mx_check.mx_details[k].priority
                        <= mx_check.mx_details[k + 1].priority
              /\ Len(mx_check.mx_hosts) = Len(mx_check.mx_details)
              /\ \A k \in 1..Len(mx_check.mx_hosts) :
                    mx_check.mx_hosts[k] = mx_check.mx_details[k].host
        /\ (dns_answer.mx = "noanswer" /\ dns_answer.a) =>
              /\ mx_check.valid
              /\ mx_check.mx_hosts = << call.domain >>
              /\ mx_check.mx_details = << MxRecord(0, call.domain) >>
        /\ ( \/ dns_answer.mx \in {"nxdomain", "error"}
             \/ dns_answer.mx = "noanswer" /\ ~dns_answer.a ) =>
              /\ ~mx_check.valid
              /\ mx_check.mx_hosts = <<>>
              /\ mx_check.error \notin {None, ""}

\* three MX records answered out of order are listed by priority
C27_Witness ==
    /\ pc = "smtp"
    /\ dns_answer.mx = "records"
    /\ Len(dns_answer.records) = 3
    /\ dns_answer.records[1].priority > dns_answer.records[2].priority
    /\ mx_check.mx_hosts = << "mx1.corp.io", "mx2.corp.io", "mx3.corp.io" >>


\* the address is empty or has no '@' (line 81)
Malformed == call.email = "" \/ ~Contains(call.email, "@")

\* a stage of verify_email is to run
InStage == pc \notin {"idle", "done"}

Returned(mx, smtp, d, catch, confidence_mode, domain, table) ==
    IF MxInvalid(mx) THEN [status |-> "invalid", confidence |-> 0]
    ELSE ApplyOverride(
            DetermineStatus(smtp, catch, mx, d,
                            calculate_confidence(smtp, catch, mx, d,
                                                 confidence_mode)),
            domain, table)

\* C25: status and confidence do not depend on the reputation lookups: they
\* are determined by the MX, SMTP, deliverability and catch-all outcomes,
\* whether the lookups are enabled or not, whatever they return and when
\* they fail; a failure is recorded in the evidence and the call goes on.
C25_ReputationDoesNotGate ==
    /\ (pc = "done" /\ ~Malformed) =>
          result = Returned(mx_check, smtp_result, deliverability, catch_all,
                            call.confidence_mode, call.domain, overrides)
    /\ internet_check # "absent" =>
          /\ pc \in {"classify", "done"}
          /\ call.internet_checks \/ enable_internet_checks
    /\ (pc \in {"classify", "done"} /\ mx_check.valid
          /\ (call.internet_checks \/ enable_internet_checks)) =>
          internet_check \in {"present", "error"}

\* the reputation lookup raised and the address is returned valid at 1.0
C25_Witness ==
    /\ pc = "done"
    /\ internet_check = "error"
    /\ io.internet = 1
    /\ call.confidence_mode = "balanced"
    /\ result = [status |-> "valid", confidence |-> Unit]


\* verify_email is past step 5 with a valid MX record
PastStepFive == pc \in {"classify", "done"} /\ mx_check.valid

\* C39 as stated: under the default configuration a call with
\* internet_checks = False makes no reputation lookup and its result carries
\* no internet_check evidence.
C39_CallerSwitchesLookupOff ==
    (enable_internet_checks = InitEnableInternetChecks
        /\ pc # "idle" /\ ~call.internet_checks) =>
            /\ internet_check = "absent"
            /\ io.internet = 0

\* C39 amended: a call with internet_checks = False makes no reputation
\* lookup and carries no internet_check evidence when the verifier's
\* enable_internet_checks is off; when it is on, as it is under the default
\* configuration, the lookup is made once and the evidence is recorded.
C39_VerifierSwitchDecides ==
    (pc # "idle" /\ ~call.internet_checks) =>
        IF enable_internet_checks /\ PastStepFive
        THEN internet_check \in {"present", "error"} /\ io.internet = 1
        ELSE internet_check = "absent" /\ io.internet = 0

\* enable_internet_checks off, the caller passes False, the call is done
\* with a valid MX record and without evidence
C39_Witness ==
    /\ pc = "done"
    /\ mx_check.valid
    /\ ~enable_internet_checks
    /\ ~call.internet_checks
    /\ internet_check = "absent"
    /\ io.internet = 0
    /\ result.status = "valid"

-----------------------------------------------------------------------------
(* Properties of the bulk jobs (SpecBulk) *)

\* the rows gone through
RowsDone == job.index - 1

\* the k-th record carries the identifying fields of the k-th row
RecordOfRow(k) ==
    IF job.mode = "find"
    THEN /\ job.output[k].first_name = normalize_cell(job.rows[k].first_name)
         /\ job.output[k].last_name = normalize_cell(job.rows[k].last_name)
         /\ job.output[k].domain = normalize_cell(job.rows[k].domain)
    ELSE job.output[k].status = "missing_email"
            \/ job.output[k].email = normalize_cell(job.rows[k].email)

\* C28: a bulk job writes one record and reports one progress increment per
\* input row, in input order; when the finder or the verifier raises for a
\* row, the record of that row has status error and the failure reason, the
\* following rows are processed all the same, and the job completes rather
\* than fails.
C28_RowsIsolated ==
    /\ job.status \in {"queued", "processing", "completed", "failed"}
    /\ job.status = "failed" => (job.index = 1 /\ job.output = <<>>)
    /\ job.status \in {"processing", "completed"} =>
        /\ Len(job.output) = RowsDone
        /\ Len(job.increments) = RowsDone
        /\ \A k \in 1..RowsDone : RecordOfRow(k)
        /\ \A c \in 1..Len(job.calls) :
              /\ job.calls[c].row <= RowsDone
              /\ job.calls[c].raised <=>
                    job.output[job.calls[c].row].status = "error"
              /\ job.calls[c].raised =>
                    /\ job.output[job.calls[c].row].reason = job.calls[c].reason
                    /\ ~job.increments[job.calls[c].row]
        /\ \A c \in 1..(Len(job.calls) - 1) :
              job.calls[c].row < job.calls[c + 1].row
        /\ job.status = "completed" => RowsDone = Len(job.rows)

\* a find job of three rows: the finder raises for the second, whose record
\* says so; the third row gets its address and the job completes
C28_Witness ==
    /\ job.status = "completed"
    /\ job.mode = "find"
    /\ Len(job.rows) = 3
    /\ job.output[1].status = "not_found"
    /\ job.output[2].status = "error"
    /\ job.output[2].reason = "finder failed"
    /\ job.output[3].email = "bob.ray@corp.io"
    /\ job.increments = << FALSE, FALSE, TRUE >>


-----------------------------------------------------------------------------
(* Properties of find_best_emails over the results of verify_email         *)
(* (SpecFinder)                                                            *)

\* the outcomes of smtp_handshake as verify_email reads them: accepted,
\* rejected, skipped, inconclusive
ProbeVerdicts ==
    { [accepted |-> TRUE, rejected |-> FALSE, skipped |-> FALSE],
      [accepted |-> FALSE, rejected |-> TRUE, skipped |-> FALSE],
      [accepted |-> FALSE, rejected |-> FALSE, skipped |-> TRUE],
      [accepted |-> FALSE, rejected |-> FALSE, skipped |-> FALSE] }

\* status and confidence of every result verify_email can return with the
\* override table empty
VerifierResults ==
    { Returned([valid |-> valid], smtp, d,
               [is_catchall |-> is_catchall], confidence_mode, "corp.io",
               DefaultOverrides) :
        valid \in BOOLEAN, smtp \in ProbeVerdicts,
        d \in DeliverabilityRecords, is_catchall \in BOOLEAN,
        confidence_mode \in {"balanced", "aggressive"} }

\* the verifications of the search so far all returned, with a probe that
\* was skipped or inconclusive
AllSkippedOrInconclusive ==
    \A k \in 1..Len(verified) :
        /\ ~verified[k].verification.raised
        /\ verified[k].verification.status \in {"likely_valid", "unknown"}

\* C36: with the override table empty a likely_valid result never has a
\* confidence above 0.75 and a valid result never one below 0.85, so the
\* early stop of find_best_emails fires only on a result of status valid or
\* catch-all: when every candidate's probe is skipped or inconclusive, all
\* candidates up to the probe cap are verified.
C36_EarlyStopNeedsAcceptance ==
    /\ \A r \in VerifierResults :
          /\ r.status = "likely_valid" => r.confidence <= CAP_SKIPPED
          /\ r.status = "valid" => r.confidence >= 85 * 100
    /\ \A v \in VerifyOutcomes :
          ~v.raised =>
             [status |-> v.status, confidence |-> v.confidence]
                \in VerifierResults
    /\ \A k \in 1..Len(verified) :
          StopsAt(k) =>
             verified[k].verification.status \in {"valid", "catch-all"}
    /\ (LoopOver /\ verified # <<>> /\ AllSkippedOrInconclusive) =>
          Len(verified) = Cap

\* max_results = 1, three candidates at the cap, each likely_valid at 0.75:
\* all three are verified
C36_Witness ==
    /\ fpc = "returned"
    /\ fargs.max_results = 1
    /\ Cap = 3
    /\ Len(verified) = 3
    /\ \A k \in 1..3 :
          verified[k].verification =
             Verification(FALSE, "likely_valid", 75 * 100)
    /\ Len(returned) = 1

=============================================================================
